---- MODULE Spec2Model ----
(***************************************************************************)
(* Model of the matchmaking bot in src/index.js: the profile store (the    *)
(* users collection), the in-memory session map, the rate limiter, the     *)
(* candidate queue builder and the handlers that drive them.               *)
(*                                                                         *)
(* Every handler is one atomic action (one inbound event run to            *)
(* completion).  Identifiers are small positive integers, so the           *)
(* parseInt / isNaN normalisation of the id arrays leaves them as they     *)
(* are.  The session queue holds profile snapshots in the code; only the   *)
(* snapshot's id is ever used to pick and mark the candidate, so the       *)
(* queue is modelled as the sequence of those ids.  Timestamps are         *)
(* integers with TicksPerDay ticks to a calendar day.                      *)
(***************************************************************************)
EXTENDS Integers, Sequences, FiniteSets, TLC

VARIABLES
    db,         \* users collection: function from the ids that have a profile to the profile
    sessions,   \* the `sessions` object: function from ids that have a session to the session
    now,        \* current time (Date.now())
    out,        \* what the last handler answered to the acting user
    seen,       \* history: the candidates presented to each user so far
    consumed,   \* history: swipe consumptions each user completed on the current day
    deletionReasons, \* deletionReasons collection: the ids whose reason was stored, in order
    reports,    \* reports collection: the stored reports, in insertion order
    reporting,  \* report handlers suspended between findOne and insertOne, per (reporter, reported)
    calls,      \* Skip handlers suspended at an await: per slot, where it stands and what it read
    notify,     \* the Like or message handler suspended at a send to its target, if any
    loads       \* per user, the Like handler suspended after loadDB and the profiles it holds

vars == <<db, sessions, now, out, seen, consumed, deletionReasons, reports, reporting, calls,
          notify, loads>>

\* const x = ...: the value is computed once and named in what follows.
With(x, F(_)) == F(x)

\* ---------------------------------------------------------------------
\* Bounds and program constants
\* ---------------------------------------------------------------------
Users == {1, 2, 3}

DailyLimit == 20

TicksPerDay == 2

MaxNow == 5

SwipesLeft == 2

MaxPurchased == 40

\* Report handlers of one (reporter, reported) pair in flight at a time.
MaxInFlight == 2

\* The slots of the Skip handlers that can be in flight together.
Slots == 1..MaxInFlight

\* A slot no handler occupies.
Idle == [pc |-> "idle", user |-> 0, cp |-> 0, pg |-> 0]

\* What becomes of a send to another user: it is delivered, it is rejected
\* (the target blocked the bot), or its promise never settles.
Outcomes == {"delivered", "rejected", "never"}

\* No handler is suspended at a send.
NoSend == [pc |-> "idle", op |-> "none", user |-> 0, target |-> 0, plan |-> <<>>,
           outcome |-> "none"]

\* No Like handler of the user is in flight, and none has completed.
NoLoad == [pc |-> "idle", target |-> 0, me |-> <<>>, them |-> <<>>]

\* The larger of the two packages: 80 swipes.
MaxTier == 80

Genders == {"male", "female"}

Lookings == {"men", "women"}

\* ---------------------------------------------------------------------
\* Helpers
\* ---------------------------------------------------------------------
Range(s) == {s[i] : i \in 1..Len(s)}

Count(s, x) == Cardinality({i \in 1..Len(s) : s[i] = x})

Remove(s, x) == SelectSeq(s, LAMBDA y : y # x)

\* Faulty variant of AddUnique: pushes without looking whether x is there.
AddUniqueAlways(s, x) == Append(s, x)

AddUnique(s, x) == IF x \in Range(s) THEN s ELSE Append(s, x)

NoDup(s) == \A i, j \in 1..Len(s) : s[i] = s[j] => i = j

Max0(a) == IF a > 0 THEN a ELSE 0

DayStart(t) == t - (t % TicksPerDay)

RECURSIVE SortAsc(_)
SortAsc(S) ==
    IF S = {} THEN <<>>
    ELSE LET m == CHOOSE x \in S : \A y \in S : x <= y
         IN <<m>> \o SortAsc(S \ {m})

MkOut(u, k, t) == [user |-> u, kind |-> k, target |-> t]

\* try { ... } catch (e) { console.error(...) }: a throw inside the call ends
\* the handler with the answer given so far.
catchThrow(r, kind) ==
    IF r.out.kind = "threw" THEN [r EXCEPT !.out = MkOut(r.out.user, kind, 0)] ELSE r

\* ---------------------------------------------------------------------
\* Session map
\* ---------------------------------------------------------------------
NewSession ==
    [queue |-> <<>>, shown |-> <<>>, lastPreference |-> "none",
     waitingForDeletionReason |-> FALSE,
     step |-> "none", messageTargetId |-> 0,
     photos |-> 0, editPhotos |-> -1, gender |-> "unset", looking |-> "unset"]

getSession(ses, userId) ==
    IF userId \in DOMAIN ses THEN ses
    ELSE [x \in DOMAIN ses \cup {userId} |-> IF x = userId THEN NewSession ELSE ses[x]]

\* Faulty variant of checkAndResetDailySwipes: resets only a profile that was never
\* reset, so a count of the previous day carries over.
checkAndResetNeverAgain(d, userId) ==
    IF userId \notin DOMAIN d THEN [db |-> d, val |-> 0]
    ELSE IF d[userId].lastSwipeReset = 0
         THEN [db |-> [d EXCEPT ![userId].dailySwipes = 0,
                                ![userId].lastSwipeReset = DayStart(now)],
               val |-> 0]
         ELSE [db |-> d, val |-> d[userId].dailySwipes]

\* ---------------------------------------------------------------------
\* Rate limiter
\* ---------------------------------------------------------------------
checkAndResetDailySwipes(d, userId) ==
    IF userId \notin DOMAIN d THEN [db |-> d, val |-> 0]
    ELSE IF d[userId].lastSwipeReset = 0
            \/ DayStart(d[userId].lastSwipeReset) # DayStart(now)
         THEN [db |-> [d EXCEPT ![userId].dailySwipes = 0,
                                ![userId].lastSwipeReset = DayStart(now)],
               val |-> 0]
         ELSE [db |-> d, val |-> d[userId].dailySwipes]

\* Faulty variant of incrementDailySwipes: the incremented counter is never stored.
incrementNotStored(d, userId) ==
    IF userId \notin DOMAIN d THEN d ELSE checkAndResetDailySwipes(d, userId).db

incrementDailySwipes(d, userId) ==
    LET r == checkAndResetDailySwipes(d, userId)
    IN IF userId \notin DOMAIN d THEN d
       ELSE [r.db EXCEPT ![userId].dailySwipes = @ + 1]

getAvailableSwipes(d, userId) ==
    IF userId \notin DOMAIN d
    THEN [db |-> d, free |-> 0, purchased |-> 0, total |-> 0]
    ELSE LET r == checkAndResetDailySwipes(d, userId)
             purchasedSwipes == d[userId].purchasedSwipes
             freeSwipesRemaining == Max0(DailyLimit - r.val)
         IN [db |-> r.db, free |-> freeSwipesRemaining,
             purchased |-> purchasedSwipes,
             total |-> freeSwipesRemaining + purchasedSwipes]

\* Faulty variant of isMatch: the candidate's own preference is not checked.
isMatchOneWay(me, u) ==
    \/ me.looking = "men" /\ u.gender = "male"
    \/ me.looking = "women" /\ u.gender = "female"

\* ---------------------------------------------------------------------
\* Candidate queue builder
\* ---------------------------------------------------------------------
isMatch(me, u) ==
    LET meLikesTargetGender ==
            \/ me.looking = "men" /\ u.gender = "male"
            \/ me.looking = "women" /\ u.gender = "female"
        targetLikesMeGender ==
            \/ u.looking = "men" /\ me.gender = "male"
            \/ u.looking = "women" /\ me.gender = "female"
    IN meLikesTargetGender /\ targetLikesMeGender

\* Faulty variant of buildCandidateQueue: the strict filter only, without
\* any relaxation.
buildCandidateQueueStrict(d, ses, userId, excludeShown) ==
    IF userId \notin DOMAIN d THEN [queue |-> <<>>, ses |-> ses]
    ELSE
      LET me == d[userId]
          s0 == getSession(ses, userId)
          shownIds == IF excludeShown THEN Range(s0[userId].shown) ELSE {}
          candidates == {u \in DOMAIN d : u # userId /\ u \notin shownIds /\ isMatch(me, d[u])}
      IN [queue |-> SortAsc(candidates), ses |-> s0]

\* Faulty variant of buildCandidateQueue: when the strict filter yields
\* nothing the preference filter is dropped before the shown list is cleared.
buildCandidateQueueDropsFilter(d, ses, userId, excludeShown) ==
    IF userId \notin DOMAIN d THEN [queue |-> <<>>, ses |-> ses]
    ELSE
      LET me == d[userId]
          s0 == getSession(ses, userId)
          shownIds == IF excludeShown THEN Range(s0[userId].shown) ELSE {}
          others == DOMAIN d \ {userId}
          unfiltered == others \ shownIds
          candidates == {u \in unfiltered : isMatch(me, d[u])}
      IN IF candidates # {} THEN [queue |-> SortAsc(candidates), ses |-> s0]
         ELSE IF unfiltered # {} THEN [queue |-> SortAsc(unfiltered), ses |-> s0]
         ELSE [queue |-> SortAsc(others), ses |-> [s0 EXCEPT ![userId].shown = <<>>]]

RECURSIVE buildCandidateQueue(_, _, _, _)
buildCandidateQueue(d, ses, userId, excludeShown) ==
    IF userId \notin DOMAIN d THEN [queue |-> <<>>, ses |-> ses]
    ELSE
      LET me == d[userId]
          s0 == getSession(ses, userId)
          shownIds == IF excludeShown THEN Range(s0[userId].shown) ELSE {}
          unfiltered == {u \in DOMAIN d : u # userId /\ ~(excludeShown /\ u \in shownIds)}
          candidates == {u \in unfiltered : isMatch(me, d[u])}
          reset == [s0 EXCEPT ![userId].shown = <<>>]
      IN IF candidates = {} /\ excludeShown /\ shownIds # {}
         THEN buildCandidateQueue(d, reset, userId, FALSE)
         ELSE IF candidates = {}
              THEN IF unfiltered = {} /\ excludeShown /\ shownIds # {}
                   THEN buildCandidateQueue(d, reset, userId, TRUE)
                   ELSE [queue |-> SortAsc(unfiltered), ses |-> s0]
              ELSE [queue |-> SortAsc(candidates), ses |-> s0]

\* session.queue = await buildCandidateQueue(userId, excludeShown)
rebuildQueue(d, ses, userId, excludeShown) ==
    With(buildCandidateQueue(d, ses, userId, excludeShown), LAMBDA b :
        [db |-> d, ses |-> [b.ses EXCEPT ![userId].queue = b.queue],
         out |-> MkOut(userId, "queue", 0)])

\* ---------------------------------------------------------------------
\* Candidate presentation
\* ---------------------------------------------------------------------
\* Pop the front of the queue, mark it shown, present it.
popAndPresent(d, ses, userId) ==
    LET target == Head(ses[userId].queue)
    IN [db |-> d,
        ses |-> [ses EXCEPT ![userId].queue = Tail(@),
                            ![userId].shown = AddUnique(@, target)],
        out |-> MkOut(userId, "candidate", target)]

\* Faulty variant of showCandidate: the queue is rebuilt also when the user
\* is the only one stored.
showCandidateNoCount(d, ses, userId) ==
    IF userId \notin DOMAIN d THEN [db |-> d, ses |-> ses, out |-> MkOut(userId, "lostProfile", 0)]
    ELSE
      With(getAvailableSwipes(d, userId), LAMBDA av :
      With(getSession(ses, userId), LAMBDA s1 :
        IF av.total <= 0 THEN [db |-> av.db, ses |-> ses, out |-> MkOut(userId, "offer", 0)]
        ELSE IF s1[userId].queue # <<>> THEN popAndPresent(av.db, s1, userId)
        ELSE IF Cardinality(DOMAIN d) > 0
        THEN With(buildCandidateQueue(av.db,
                                      IF s1[userId].shown # <<>>
                                      THEN [s1 EXCEPT ![userId].shown = <<>>] ELSE s1,
                                      userId, TRUE), LAMBDA b1 :
             With(IF b1.queue = <<>>
                  THEN buildCandidateQueue(av.db, b1.ses, userId, FALSE)
                  ELSE b1, LAMBDA b2 :
             With([b2.ses EXCEPT ![userId].queue = b2.queue], LAMBDA s3 :
               IF b2.queue = <<>>
               THEN [db |-> av.db, ses |-> s3, out |-> MkOut(userId, "threw", 0)]
               ELSE popAndPresent(av.db, s3, userId))))
        ELSE [db |-> av.db, ses |-> s1, out |-> MkOut(userId, "noOthers", 0)]))

showCandidate(d, ses, userId) ==
    IF userId \notin DOMAIN d THEN [db |-> d, ses |-> ses, out |-> MkOut(userId, "lostProfile", 0)]
    ELSE
      With(getAvailableSwipes(d, userId), LAMBDA av :
      With(getSession(ses, userId), LAMBDA s1 :
        IF av.total <= 0 THEN [db |-> av.db, ses |-> ses, out |-> MkOut(userId, "offer", 0)]
        ELSE IF s1[userId].queue # <<>> THEN popAndPresent(av.db, s1, userId)
        ELSE IF Cardinality(DOMAIN d) > 1
        THEN With(buildCandidateQueue(av.db,
                                      IF s1[userId].shown # <<>>
                                      THEN [s1 EXCEPT ![userId].shown = <<>>] ELSE s1,
                                      userId, TRUE), LAMBDA b1 :
             With(IF b1.queue = <<>>
                  THEN buildCandidateQueue(av.db, b1.ses, userId, FALSE)
                  ELSE b1, LAMBDA b2 :
             With([b2.ses EXCEPT ![userId].queue = b2.queue], LAMBDA s3 :
               IF b2.queue = <<>>
               THEN [db |-> av.db, ses |-> s3, out |-> MkOut(userId, "threw", 0)]
               ELSE popAndPresent(av.db, s3, userId))))
        ELSE [db |-> av.db, ses |-> s1, out |-> MkOut(userId, "noOthers", 0)]))

showNext(d, ses, userId) ==
    IF userId \notin DOMAIN d THEN [db |-> d, ses |-> ses, out |-> MkOut(userId, "createFirst", 0)]
    ELSE
      LET me == d[userId]
          currentPreference == IF me.looking = "unset" THEN "men" ELSE me.looking
          totalUsers == Cardinality(DOMAIN d)
      IN
      With(getSession(ses, userId), LAMBDA s0 :
      With(IF s0[userId].lastPreference # currentPreference
           THEN [s0 EXCEPT ![userId].shown = <<>>,
                           ![userId].queue = <<>>,
                           ![userId].lastPreference = currentPreference]
           ELSE s0, LAMBDA s1 :
      \* queue empty: rebuild, and once more after resetting shown
      With(IF s1[userId].queue = <<>>
           THEN With(buildCandidateQueue(d, s1, userId, TRUE), LAMBDA bA :
                With(IF bA.queue = <<>>
                     THEN buildCandidateQueue(d, [bA.ses EXCEPT ![userId].shown = <<>>],
                                              userId, TRUE)
                     ELSE bA, LAMBDA bB :
                  [bB.ses EXCEPT ![userId].queue = bB.queue]))
           ELSE s1, LAMBDA s2 :
        IF totalUsers <= 1
        THEN [db |-> d, ses |-> s2, out |-> MkOut(userId, "noOthers", 0)]
        ELSE
        \* still empty after rebuild
        With(IF s2[userId].queue = <<>>
             THEN With(buildCandidateQueue(d, [s2 EXCEPT ![userId].shown = <<>>],
                                           userId, TRUE), LAMBDA bC :
                  With(IF bC.queue = <<>>
                       THEN buildCandidateQueue(d, bC.ses, userId, FALSE)
                       ELSE bC, LAMBDA bD :
                    [bD.ses EXCEPT ![userId].queue = bD.queue]))
             ELSE s2, LAMBDA s3 :
          IF s3[userId].queue = <<>>
          THEN [db |-> d, ses |-> s3, out |-> MkOut(userId, "noNew", 0)]
          ELSE With(getAvailableSwipes(d, userId), LAMBDA av :
                 IF av.total <= 0
                 THEN [db |-> av.db, ses |-> s3, out |-> MkOut(userId, "offer", 0)]
                 ELSE showCandidate(av.db, s3, userId))))))

\* ---------------------------------------------------------------------
\* Handlers: what each does to the store and the session map
\* ---------------------------------------------------------------------
\* bot.command("match")
matchCommand(d, ses, userId) == showNext(d, ses, userId)

\* Faulty variant of clearMessageStep: every session waiting for a message
\* is cleared.
clearMessageStepOfAll(ses, userId) ==
    [x \in DOMAIN ses |->
        IF ses[x].step = "waiting_message"
        THEN [ses[x] EXCEPT !.step = "none", !.messageTargetId = 0]
        ELSE ses[x]]

clearMessageStep(ses, userId) ==
    IF ses[userId].step = "waiting_message"
    THEN [ses EXCEPT ![userId].step = "none", ![userId].messageTargetId = 0]
    ELSE ses

\* Faulty variant of skipConsume: the free daily swipe is always the one taken.
skipConsumeFreeFirst(d, userId, currentPurchased) == incrementDailySwipes(d, userId)

\* The swipe a Skip consumes: a purchased credit if the profile read at the
\* start of the handler has any, else a free daily swipe.
skipConsume(d, userId, currentPurchased) ==
    IF currentPurchased > 0
    THEN [d EXCEPT ![userId].purchasedSwipes = @ - 1]
    ELSE incrementDailySwipes(d, userId)

\* bot.action(/skip_(.+)/)
skipAction(d, ses, userId, targetId) ==
    IF userId \notin DOMAIN d THEN [db |-> d, ses |-> ses, out |-> MkOut(userId, "lostProfile", 0)]
    ELSE
      With(getAvailableSwipes(d, userId), LAMBDA av :
        IF av.total <= 0 THEN [db |-> av.db, ses |-> ses, out |-> MkOut(userId, "offer", 0)]
        ELSE
          LET currentPurchased == d[userId].purchasedSwipes
              d1 == skipConsume(av.db, userId, currentPurchased)
              s1 == clearMessageStep(getSession(ses, userId), userId)
          IN With(showCandidate(d1, s1, userId), LAMBDA r1 :
               IF r1.out.kind # "threw" THEN r1
               ELSE \* catch: rebuild the queue and show again
                 With(buildCandidateQueue(r1.db, r1.ses, userId, TRUE), LAMBDA b :
                 With([b.ses EXCEPT ![userId].queue = b.queue], LAMBDA s2 :
                   IF b.queue # <<>> THEN showCandidate(r1.db, s2, userId)
                   ELSE [db |-> r1.db, ses |-> s2, out |-> MkOut(userId, "none", 0)]))))

\* ---------------------------------------------------------------------
\* bot.action(/skip_(.+)/) step by step: the handler is suspended at every
\* await on the users collection, and another handler of the same user can
\* run in between.  calls[k] holds where handler k stands (pc), the
\* purchasedSwipes its first findOne returned (cp) and the purchasedSwipes
\* getAvailableSwipes read (pg).
\* ---------------------------------------------------------------------
Suspend(d, ses, cs, k, pc, pg) ==
    [db |-> d, ses |-> ses, out |-> MkOut(cs[k].user, "pending", 0),
     calls |-> [cs EXCEPT ![k].pc = pc, ![k].pg = pg]]

\* const user = await usersCollection.findOne({id}, {projection: {purchasedSwipes: 1}})
skipFindOne(d, ses, cs, k, userId) ==
    IF userId \notin DOMAIN d
    THEN [db |-> d, ses |-> ses, out |-> MkOut(userId, "lostProfile", 0), calls |-> cs]
    ELSE [db |-> d, ses |-> ses, out |-> MkOut(userId, "pending", 0),
          calls |-> [cs EXCEPT ![k] = [pc |-> "gate", user |-> userId,
                                       cp |-> d[userId].purchasedSwipes, pg |-> 0]]]

\* checkAndResetDailySwipes, the test on what its findOne returned.
isResetDue(d, userId) ==
    \/ d[userId].lastSwipeReset = 0
    \/ DayStart(d[userId].lastSwipeReset) # DayStart(now)

\* checkAndResetDailySwipes, its updateOne.
resetDailySwipes(d, userId) ==
    IF userId \notin DOMAIN d THEN d
    ELSE [d EXCEPT ![userId].dailySwipes = 0, ![userId].lastSwipeReset = DayStart(now)]

\* if (availableSwipes.total <= 0) return ctx.reply(purchaseText, ...)
skipGated(d, ses, cs, k, total) ==
    IF total <= 0
    THEN [db |-> d, ses |-> ses, out |-> MkOut(cs[k].user, "offer", 0),
          calls |-> [cs EXCEPT ![k] = Idle]]
    ELSE Suspend(d, ses, cs, k, "consume", cs[k].pg)

\* getAvailableSwipes up to the findOne of checkAndResetDailySwipes.
skipGate(d, ses, cs, k) ==
    With(cs[k].user, LAMBDA userId :
      IF userId \notin DOMAIN d THEN skipGated(d, ses, cs, k, 0)
      ELSE IF isResetDue(d, userId)
      THEN Suspend(d, ses, cs, k, "gateReset", d[userId].purchasedSwipes)
      ELSE skipGated(d, ses, cs, k,
                     Max0(DailyLimit - d[userId].dailySwipes) + d[userId].purchasedSwipes))

\* getAvailableSwipes from the updateOne of checkAndResetDailySwipes on.
skipGateReset(d, ses, cs, k) ==
    skipGated(resetDailySwipes(d, cs[k].user), ses, cs, k, Max0(DailyLimit - 0) + cs[k].pg)

\* Clear the message step and show the next candidate; the handler ends.
skipShow(d1, ses, cs, k) ==
    With(cs[k].user, LAMBDA userId :
    With(clearMessageStep(getSession(ses, userId), userId), LAMBDA s1 :
    With(showCandidate(d1, s1, userId), LAMBDA r1 :
    With(IF r1.out.kind # "threw" THEN r1
         ELSE \* catch: rebuild the queue and show again
           With(buildCandidateQueue(r1.db, r1.ses, userId, TRUE), LAMBDA b :
           With([b.ses EXCEPT ![userId].queue = b.queue], LAMBDA s2 :
             IF b.queue # <<>> THEN showCandidate(r1.db, s2, userId)
             ELSE [db |-> r1.db, ses |-> s2, out |-> MkOut(userId, "none", 0)])),
         LAMBDA r2 :
      [db |-> r2.db, ses |-> r2.ses, out |-> r2.out, calls |-> [cs EXCEPT ![k] = Idle]]))))

\* if (currentPurchased > 0) $inc purchasedSwipes by -1, else
\* incrementDailySwipes up to the findOne of its checkAndResetDailySwipes.
skipConsumeStep(d, ses, cs, k) ==
    With(cs[k].user, LAMBDA userId :
      IF cs[k].cp > 0
      THEN skipShow(IF userId \in DOMAIN d
                    THEN [d EXCEPT ![userId].purchasedSwipes = @ - 1] ELSE d,
                    ses, cs, k)
      ELSE IF userId \in DOMAIN d /\ isResetDue(d, userId)
      THEN Suspend(d, ses, cs, k, "incReset", cs[k].pg)
      ELSE Suspend(d, ses, cs, k, "inc", cs[k].pg))

\* incrementDailySwipes, the updateOne of its checkAndResetDailySwipes.
skipIncReset(d, ses, cs, k) ==
    Suspend(resetDailySwipes(d, cs[k].user), ses, cs, k, "inc", cs[k].pg)

\* incrementDailySwipes, its $inc, and the rest of the handler.
skipInc(d, ses, cs, k) ==
    With(cs[k].user, LAMBDA userId :
      skipShow(IF userId \in DOMAIN d
               THEN [d EXCEPT ![userId].dailySwipes = @ + 1] ELSE d,
               ses, cs, k))

\* Faulty variant of likeTargetArrays: on a match the liker is not pushed to the
\* target's matches.
likeTargetArraysOneSided(them, userId, matchFound) ==
    [likes |-> them.likes,
     matches |-> them.matches,
     recentLikes |-> IF matchFound THEN them.recentLikes
                     ELSE Append(Remove(them.recentLikes, userId), userId)]

\* Faulty variant of likeTargetArrays: the liker is appended to recentLikes without
\* removing an earlier occurrence.
likeTargetArraysNoDedup(them, userId, matchFound) ==
    [likes |-> them.likes,
     matches |-> IF matchFound THEN AddUnique(them.matches, userId) ELSE them.matches,
     recentLikes |-> IF matchFound THEN them.recentLikes
                     ELSE Append(them.recentLikes, userId)]

\* Faulty variant of likeTargetArrays: on a match the liker is pushed to the
\* target's matches without looking whether it is there.
likeTargetArraysPushAlways(them, userId, matchFound) ==
    [likes |-> them.likes,
     matches |-> IF matchFound THEN Append(them.matches, userId) ELSE them.matches,
     recentLikes |-> IF matchFound THEN them.recentLikes
                     ELSE Append(Remove(them.recentLikes, userId), userId)]

\* The arrays a Like writes back to the target's profile.
likeTargetArrays(them, userId, matchFound) ==
    [likes |-> them.likes,
     matches |-> IF matchFound THEN AddUnique(them.matches, userId) ELSE them.matches,
     recentLikes |-> IF matchFound THEN them.recentLikes
                     ELSE Append(Remove(them.recentLikes, userId), userId)]

\* bot.action(/like_(.+)/)
likeAction(d, ses, userId, targetId) ==
    IF userId \notin DOMAIN d THEN [db |-> d, ses |-> ses, out |-> MkOut(userId, "lostProfile", 0)]
    ELSE IF targetId \notin DOMAIN d
    THEN With(buildCandidateQueue(d, getSession(ses, userId), userId, TRUE), LAMBDA b :
         With([b.ses EXCEPT ![userId].queue = b.queue], LAMBDA s1 :
           IF b.queue # <<>> THEN showCandidate(d, s1, userId)
           ELSE [db |-> d, ses |-> s1, out |-> MkOut(userId, "none", 0)]))
    ELSE
      LET me == d[userId]
          them == d[targetId]
          myLikes == AddUnique(me.likes, targetId)
          usePurchased == me.purchasedSwipes > 0
          updatedPurchasedSwipes == IF usePurchased THEN me.purchasedSwipes - 1
                                    ELSE me.purchasedSwipes
          matchFound == userId \in Range(them.likes)
          myMatches == IF matchFound THEN AddUnique(me.matches, targetId) ELSE me.matches
          theirs == likeTargetArrays(them, userId, matchFound)
          s1 == clearMessageStep(getSession(ses, userId), userId)
      IN
      With(getAvailableSwipes(d, userId), LAMBDA av :
        IF av.total <= 0 THEN [db |-> av.db, ses |-> ses, out |-> MkOut(userId, "offer", 0)]
        ELSE
        With(IF usePurchased THEN av.db ELSE incrementDailySwipes(av.db, userId), LAMBDA d1 :
        \* updateUserArrays(userId, ...) then updateUserArrays(targetId, ...)
        With([d1 EXCEPT ![userId].likes = myLikes,
                        ![userId].matches = myMatches,
                        ![userId].purchasedSwipes = updatedPurchasedSwipes], LAMBDA d2 :
        With([d2 EXCEPT ![targetId].likes = theirs.likes,
                        ![targetId].matches = theirs.matches,
                        ![targetId].recentLikes = theirs.recentLikes], LAMBDA d3 :
        With(buildCandidateQueue(d3, s1, userId, TRUE), LAMBDA b :
        With([b.ses EXCEPT ![userId].queue = b.queue], LAMBDA s2 :
          IF b.queue = <<>> THEN [db |-> d3, ses |-> s2, out |-> MkOut(userId, "none", 0)]
          ELSE catchThrow(showCandidate(d3, s2, userId), "none")))))))

\* ---------------------------------------------------------------------
\* bot.action(/like_(.+)/) in two steps: loadDB, and everything after it.
\* The handler works on the me and them objects loadDB returned and writes
\* their arrays back with updateUserArrays, whatever was stored meanwhile.
\* ---------------------------------------------------------------------
likeLoad(d, ses, ld, userId, targetId) ==
    IF userId \notin DOMAIN d \/ targetId \notin DOMAIN d
    THEN With(likeAction(d, ses, userId, targetId), LAMBDA r :
           [db |-> r.db, ses |-> r.ses, out |-> r.out, loads |-> ld])
    ELSE [db |-> d, ses |-> ses, out |-> MkOut(userId, "pending", 0),
          loads |-> [ld EXCEPT ![userId] = [pc |-> "loaded", target |-> targetId,
                                            me |-> d[userId], them |-> d[targetId]]]]

\* updateUserArrays: $set of the named fields, no upsert.
updateLikeArrays(d, id, likes, matches) ==
    IF id \notin DOMAIN d THEN d
    ELSE [d EXCEPT ![id].likes = likes, ![id].matches = matches]

likeStore(d, ses, ld, userId) ==
    LET targetId == ld[userId].target
        me == ld[userId].me
        them == ld[userId].them
        myLikes == AddUnique(me.likes, targetId)
        usePurchased == me.purchasedSwipes > 0
        updatedPurchasedSwipes == IF usePurchased THEN me.purchasedSwipes - 1
                                  ELSE me.purchasedSwipes
        matchFound == userId \in Range(them.likes)
        myMatches == IF matchFound THEN AddUnique(me.matches, targetId) ELSE me.matches
        theirs == likeTargetArrays(them, userId, matchFound)
        s1 == clearMessageStep(getSession(ses, userId), userId)
        done == [ld EXCEPT ![userId] = [pc |-> "done", target |-> targetId,
                                        me |-> <<>>, them |-> <<>>]]
    IN
    With(getAvailableSwipes(d, userId), LAMBDA av :
      IF av.total <= 0
      THEN [db |-> av.db, ses |-> ses, out |-> MkOut(userId, "offer", 0),
            loads |-> [ld EXCEPT ![userId] = NoLoad]]
      ELSE
      With(IF usePurchased THEN av.db ELSE incrementDailySwipes(av.db, userId), LAMBDA d1 :
      With(updateLikeArrays(d1, userId, myLikes, myMatches), LAMBDA d2 :
      With(IF userId \in DOMAIN d2
           THEN [d2 EXCEPT ![userId].purchasedSwipes = updatedPurchasedSwipes]
           ELSE d2, LAMBDA d3 :
      With(updateLikeArrays(d3, targetId, theirs.likes, theirs.matches), LAMBDA d4 :
      With(IF targetId \in DOMAIN d4
           THEN [d4 EXCEPT ![targetId].recentLikes = theirs.recentLikes]
           ELSE d4, LAMBDA d5 :
      With(buildCandidateQueue(d5, s1, userId, TRUE), LAMBDA b :
      With([b.ses EXCEPT ![userId].queue = b.queue], LAMBDA s2 :
        IF b.queue = <<>>
        THEN [db |-> d5, ses |-> s2, out |-> MkOut(userId, "none", 0), loads |-> done]
        ELSE With(catchThrow(showCandidate(d5, s2, userId), "none"), LAMBDA r :
               [db |-> r.db, ses |-> r.ses, out |-> r.out, loads |-> done])))))))))

\* saveUser(userId, userData) as the creation dialogue calls it: an upsert
\* that $sets every field of userData and leaves the others (recentLikes).
saveCreatedProfile(d, ses, userId) ==
    LET session == ses[userId]
        recent == IF userId \in DOMAIN d THEN d[userId].recentLikes ELSE <<>>
        userData == [gender |-> session.gender, looking |-> session.looking,
                     photos |-> session.photos,
                     likes |-> <<>>, matches |-> <<>>, recentLikes |-> recent,
                     dailySwipes |-> 0, lastSwipeReset |-> now, purchasedSwipes |-> 0]
    IN [x \in DOMAIN d \cup {userId} |-> IF x = userId THEN userData ELSE d[x]]

\* The session reset after the profile is stored, then the auto-started showNext.
finishCreation(d, ses, userId) ==
    catchThrow(showNext(saveCreatedProfile(d, ses, userId),
                        [ses EXCEPT ![userId].step = "none",
                                    ![userId].photos = 0,
                                    ![userId].shown = <<>>,
                                    ![userId].queue = <<>>,
                                    ![userId].lastPreference = "none"],
                        userId),
               "none")

\* showNext started by an edit handler; an exception is caught and logged.
autoStart(d, ses, userId) == catchThrow(showNext(d, ses, userId), "none")

setStep(d, ses, userId, step) ==
    [db |-> d, ses |-> [getSession(ses, userId) EXCEPT ![userId].step = step],
     out |-> MkOut(userId, "prompt", 0)]

\* bot.command("create")
createCommand(d, ses, userId) == setStep(d, ses, userId, "create_name_choice")

\* bot.action("create_name_telegram")
createNameTelegram(d, ses, userId) == setStep(d, ses, userId, "ask_age")

\* bot.action("create_name_custom_start")
createNameCustomStart(d, ses, userId) == setStep(d, ses, userId, "create_name_custom")

\* bot.action(/gender_(.+)/)
genderAction(d, ses, userId, gender) ==
    [db |-> d,
     ses |-> [getSession(ses, userId) EXCEPT ![userId].gender = gender,
                                             ![userId].step = "ask_looking"],
     out |-> MkOut(userId, "prompt", 0)]

\* bot.action(/look_(.+)/)
lookAction(d, ses, userId, looking) ==
    [db |-> d,
     ses |-> [getSession(ses, userId) EXCEPT ![userId].looking = looking,
                                             ![userId].step = "ask_intention"],
     out |-> MkOut(userId, "prompt", 0)]

\* bot.action(/intention_(.+)/)
intentionAction(d, ses, userId) == setStep(d, ses, userId, "ask_bio")

\* bot.action("skip_bio")
skipBio(d, ses, userId) == setStep(d, ses, userId, "ask_photo")

\* bot.action("add_more_photo")
addMorePhoto(d, ses, userId) == setStep(d, ses, userId, "ask_photo")

\* bot.action("add_more_edit_photo")
addMoreEditPhoto(d, ses, userId) == setStep(d, ses, userId, "edit_photo")

\* bot.action("edit_all_start")
editAllStart(d, ses, userId) ==
    IF userId \notin DOMAIN d THEN [db |-> d, ses |-> ses, out |-> MkOut(userId, "createFirst", 0)]
    ELSE setStep(d, ses, userId, "create_name_choice")

\* bot.action("edit_photo")
editPhoto(d, ses, userId) ==
    IF userId \notin DOMAIN d THEN [db |-> d, ses |-> ses, out |-> MkOut(userId, "createFirst", 0)]
    ELSE [db |-> d,
          ses |-> [getSession(ses, userId) EXCEPT ![userId].step = "edit_photo",
                                                  ![userId].editPhotos = 0],
          out |-> MkOut(userId, "prompt", 0)]

\* bot.action("finish_photos")
finishPhotos(d, ses, userId) ==
    LET s0 == getSession(ses, userId)
    IN IF s0[userId].photos < 2
       THEN [db |-> d, ses |-> s0, out |-> MkOut(userId, "prompt", 0)]
       ELSE finishCreation(d, s0, userId)

\* bot.action("finish_edit_photos")
finishEditPhotos(d, ses, userId) ==
    LET s0 == getSession(ses, userId)
    IN IF userId \notin DOMAIN d \/ s0[userId].editPhotos < 2
       THEN [db |-> d, ses |-> s0, out |-> MkOut(userId, "prompt", 0)]
       ELSE autoStart([d EXCEPT ![userId].photos = s0[userId].editPhotos],
                      [s0 EXCEPT ![userId].step = "none", ![userId].editPhotos = -1],
                      userId)

\* bot.on("photo")
photoMessage(d, ses, userId) ==
    LET s0 == getSession(ses, userId)
        session == s0[userId]
        sP == [s0 EXCEPT ![userId].photos = @ + 1]
        had == IF session.editPhotos = -1 THEN d[userId].photos ELSE session.editPhotos
        kept == IF had + 1 > 3 THEN 3 ELSE had + 1
    IN IF session.step = "ask_photo"
       THEN IF sP[userId].photos >= 3 THEN finishCreation(d, sP, userId)
            ELSE [db |-> d, ses |-> sP, out |-> MkOut(userId, "prompt", 0)]
       ELSE IF session.step = "edit_photo"
       THEN IF userId \notin DOMAIN d
            THEN [db |-> d, ses |-> [s0 EXCEPT ![userId].step = "none"],
                  out |-> MkOut(userId, "createFirst", 0)]
            ELSE [db |-> d, ses |-> [s0 EXCEPT ![userId].editPhotos = kept],
                  out |-> MkOut(userId, "prompt", 0)]
       ELSE [db |-> d, ses |-> s0, out |-> MkOut(userId, "none", 0)]

\* bot.action("edit_gender_male") / bot.action("edit_gender_female")
editGender(d, ses, userId, gender) ==
    IF userId \notin DOMAIN d THEN [db |-> d, ses |-> ses, out |-> MkOut(userId, "createFirst", 0)]
    ELSE autoStart([d EXCEPT ![userId].gender = gender], ses, userId)

\* bot.action("edit_look_men") / bot.action("edit_look_women")
editLook(d, ses, userId, looking) ==
    IF userId \notin DOMAIN d THEN [db |-> d, ses |-> ses, out |-> MkOut(userId, "createFirst", 0)]
    ELSE autoStart([d EXCEPT ![userId].looking = looking],
                   [getSession(ses, userId) EXCEPT ![userId].shown = <<>>,
                                                   ![userId].lastPreference = looking],
                   userId)

\* bot.action("edit_name_telegram"): the stored name is not modelled
editNameTelegram(d, ses, userId) ==
    IF userId \notin DOMAIN d THEN [db |-> d, ses |-> ses, out |-> MkOut(userId, "createFirst", 0)]
    ELSE autoStart(d, ses, userId)

\* bot.action("edit_name_custom_start")
editNameCustomStart(d, ses, userId) == setStep(d, ses, userId, "edit_name_custom")

\* bot.action("edit_age") / bot.action("edit_bio")
editField(d, ses, userId, step) ==
    IF userId \notin DOMAIN d THEN [db |-> d, ses |-> ses, out |-> MkOut(userId, "createFirst", 0)]
    ELSE setStep(d, ses, userId, step)

\* bot.command(["delete", "delet"])
deleteCommand(d, ses, userId) ==
    IF userId \notin DOMAIN d THEN [db |-> d, ses |-> ses, out |-> MkOut(userId, "createFirst", 0)]
    ELSE [db |-> d,
          ses |-> [getSession(ses, userId) EXCEPT ![userId].waitingForDeletionReason = TRUE],
          out |-> MkOut(userId, "prompt", 0)]

\* bot.command("matches"): recentLikes is cleared once recent likes were shown
matchesCommand(d, ses, userId) ==
    IF userId \notin DOMAIN d THEN [db |-> d, ses |-> ses, out |-> MkOut(userId, "createFirst", 0)]
    ELSE
      LET me == d[userId]
          peopleWhoLikedYou == {o \in DOMAIN d \ {userId} :
                                  userId \in Range(d[o].likes) /\ o \notin Range(me.matches)}
          recentLikesProfiles == {o \in peopleWhoLikedYou : o \in Range(me.recentLikes)}
      IN IF me.matches = <<>> /\ peopleWhoLikedYou = {}
         THEN [db |-> d, ses |-> ses, out |-> MkOut(userId, "noMatches", 0)]
         ELSE [db |-> IF recentLikesProfiles # {}
                      THEN [d EXCEPT ![userId].recentLikes = <<>>] ELSE d,
               ses |-> ses, out |-> MkOut(userId, "matches", 0)]

\* Faulty variant of messageAction: the swipe gate is left out.
messageActionNoGate(d, ses, userId, targetId) ==
    IF userId \notin DOMAIN d THEN [db |-> d, ses |-> ses, out |-> MkOut(userId, "lostProfile", 0)]
    ELSE IF targetId \notin DOMAIN d THEN showCandidate(d, ses, userId)
    ELSE [db |-> d,
          ses |-> [getSession(ses, userId) EXCEPT ![userId].step = "waiting_message",
                                                  ![userId].messageTargetId = targetId],
          out |-> MkOut(userId, "prompt", 0)]

\* bot.action(/message_(.+)/)
messageAction(d, ses, userId, targetId) ==
    IF userId \notin DOMAIN d THEN [db |-> d, ses |-> ses, out |-> MkOut(userId, "lostProfile", 0)]
    ELSE
      LET av == getAvailableSwipes(d, userId)
      IN IF av.total <= 0 THEN [db |-> av.db, ses |-> ses, out |-> MkOut(userId, "offer", 0)]
         ELSE IF targetId \notin DOMAIN d THEN showCandidate(av.db, ses, userId)
         ELSE [db |-> av.db,
               ses |-> [getSession(ses, userId) EXCEPT ![userId].step = "waiting_message",
                                                       ![userId].messageTargetId = targetId],
               out |-> MkOut(userId, "prompt", 0)]

\* reportsCollection.findOne({ reporterId, reportedId })
existingReport(rep, userId, targetId) ==
    \E i \in 1..Len(rep) : rep[i].reporterId = userId /\ rep[i].reportedId = targetId

\* bot.action(/report_(.+)/), up to the answer of findOne: the handler
\* returns, or is suspended with the report still to be stored.
reportAction(d, ses, rep, fl, userId, targetId) ==
    IF userId \notin DOMAIN d
    THEN [db |-> d, ses |-> ses, out |-> MkOut(userId, "lostProfile", 0)]
    ELSE IF targetId \notin DOMAIN d
    THEN [db |-> d, ses |-> ses, out |-> MkOut(userId, "userNotFound", 0)]
    ELSE IF existingReport(rep, userId, targetId)
    THEN [db |-> d, ses |-> ses, out |-> MkOut(userId, "alreadyReported", 0)]
    ELSE [db |-> d, ses |-> ses, out |-> MkOut(userId, "none", 0),
          reporting |-> [fl EXCEPT ![<<userId, targetId>>] = @ + 1]]

\* Faulty variant of reportActionSave: storing the report costs a swipe.
reportActionSaveConsuming(d, ses, rep, fl, userId, targetId) ==
    With(catchThrow(showCandidate(incrementDailySwipes(d, userId), ses, userId), "reported"),
         LAMBDA r :
        [db |-> r.db, ses |-> r.ses,
         out |-> IF r.out.kind = "none" THEN MkOut(userId, "reported", 0) ELSE r.out,
         reports |-> Append(rep, [reporterId |-> userId, reportedId |-> targetId]),
         reporting |-> [fl EXCEPT ![<<userId, targetId>>] = @ - 1]])

\* bot.action(/report_(.+)/), from saveReport on: insertOne, the thanks,
\* and showCandidate in its try/catch.
reportActionSave(d, ses, rep, fl, userId, targetId) ==
    With(catchThrow(showCandidate(d, ses, userId), "reported"), LAMBDA r :
        [db |-> r.db, ses |-> r.ses,
         out |-> IF r.out.kind = "none" THEN MkOut(userId, "reported", 0) ELSE r.out,
         reports |-> Append(rep, [reporterId |-> userId, reportedId |-> targetId]),
         reporting |-> [fl EXCEPT ![<<userId, targetId>>] = @ - 1]])

\* Faulty variant of purgeAndDelete: recentLikes is left out of the purge.
purgeAndDeleteKeepRecent(d, userId) ==
    [x \in DOMAIN d \ {userId} |->
        [d[x] EXCEPT !.likes = Remove(@, userId),
                     !.matches = Remove(@, userId)]]

\* The purge of the deletion handler: userId is filtered out of every other
\* profile's likes, matches and recentLikes, then the profile is deleted.
purgeAndDelete(d, userId) ==
    [x \in DOMAIN d \ {userId} |->
        [d[x] EXCEPT !.likes = Remove(@, userId),
                     !.matches = Remove(@, userId),
                     !.recentLikes = Remove(@, userId)]]

\* Faulty variant of sendMessage: the target's recentLikes is not saved.
sendMessageNoRecent(d, ses, userId) ==
    LET targetId == ses[userId].messageTargetId
        idle == [ses EXCEPT ![userId].step = "none"]
    IN IF targetId = 0 THEN [db |-> d, ses |-> idle, out |-> MkOut(userId, "none", 0)]
       ELSE IF userId \notin DOMAIN d
       THEN [db |-> d, ses |-> idle, out |-> MkOut(userId, "lostProfile", 0)]
       ELSE IF targetId \notin DOMAIN d
       THEN catchThrow(showCandidate(d, idle, userId), "none")
       ELSE
         LET me == d[userId]
             targetUser == d[targetId]
             myLikes == AddUnique(me.likes, targetId)
             matchFound == userId \in Range(targetUser.likes)
             myMatches == IF matchFound THEN AddUnique(me.matches, targetId) ELSE me.matches
             theirMatches == IF matchFound THEN AddUnique(targetUser.matches, userId)
                             ELSE targetUser.matches
             theirRecent == Append(Remove(targetUser.recentLikes, userId), userId)
             s1 == [ses EXCEPT ![userId].step = "none", ![userId].messageTargetId = 0]
         IN
         With(getAvailableSwipes(d, userId), LAMBDA av :
         With([av.db EXCEPT ![userId].likes = myLikes, ![userId].matches = myMatches],
              LAMBDA d1 :
         With(IF matchFound
              THEN [d1 EXCEPT ![targetId].likes = targetUser.likes,
                              ![targetId].matches = theirMatches]
              ELSE [d1 EXCEPT ![targetId].likes = targetUser.likes], LAMBDA d2 :
           IF av.total <= 0
           THEN [db |-> d2, ses |-> s1, out |-> MkOut(userId, "sent", 0)]
           ELSE With(buildCandidateQueue(d2, s1, userId, TRUE), LAMBDA b :
                  catchThrow(showCandidate(d2, [b.ses EXCEPT ![userId].queue = b.queue],
                                           userId),
                             "sent")))))

\* The waiting_message branch of the text handler: the message is sent and
\* recorded as a like of the sender for the target.
sendMessage(d, ses, userId) ==
    LET targetId == ses[userId].messageTargetId
        idle == [ses EXCEPT ![userId].step = "none"]
    IN IF targetId = 0 THEN [db |-> d, ses |-> idle, out |-> MkOut(userId, "none", 0)]
       ELSE IF userId \notin DOMAIN d
       THEN [db |-> d, ses |-> idle, out |-> MkOut(userId, "lostProfile", 0)]
       ELSE IF targetId \notin DOMAIN d
       THEN catchThrow(showCandidate(d, idle, userId), "none")
       ELSE
         LET me == d[userId]
             targetUser == d[targetId]
             myLikes == AddUnique(me.likes, targetId)
             matchFound == userId \in Range(targetUser.likes)
             myMatches == IF matchFound THEN AddUnique(me.matches, targetId) ELSE me.matches
             theirMatches == IF matchFound THEN AddUnique(targetUser.matches, userId)
                             ELSE targetUser.matches
             theirRecent == Append(Remove(targetUser.recentLikes, userId), userId)
             s1 == [ses EXCEPT ![userId].step = "none", ![userId].messageTargetId = 0]
         IN
         With(getAvailableSwipes(d, userId), LAMBDA av :
         With([av.db EXCEPT ![userId].likes = myLikes, ![userId].matches = myMatches],
              LAMBDA d1 :
         With(IF matchFound
              THEN [d1 EXCEPT ![targetId].likes = targetUser.likes,
                              ![targetId].matches = theirMatches]
              ELSE [d1 EXCEPT ![targetId].likes = targetUser.likes,
                              ![targetId].recentLikes = theirRecent], LAMBDA d2 :
           IF av.total <= 0
           THEN [db |-> d2, ses |-> s1, out |-> MkOut(userId, "sent", 0)]
           ELSE With(buildCandidateQueue(d2, s1, userId, TRUE), LAMBDA b :
                  catchThrow(showCandidate(d2, [b.ses EXCEPT ![userId].queue = b.queue],
                                           userId),
                             "sent")))))

\* bot.on("text") while a deletion reason is awaited, up to the end of
\* saveDeletionReason: the reason is stored, the profile untouched.
saveDeletionReason(d, ses, userId) ==
    [db |-> d, ses |-> ses, out |-> MkOut(userId, "reasonSaved", 0), reason |-> userId]

\* Faulty variant of deleteAccount: the session is reset, not discarded.
deleteAccountKeepSession(d, ses, userId) ==
    [db |-> purgeAndDelete(d, userId),
     ses |-> [ses EXCEPT ![userId] = NewSession],
     out |-> MkOut(userId, "deleted", 0)]

\* The same handler from there on: the purge of the other profiles,
\* deleteUser, and delete sessions[userId].
deleteAccount(d, ses, userId) ==
    [db |-> purgeAndDelete(d, userId),
     ses |-> [x \in DOMAIN ses \ {userId} |-> ses[x]],
     out |-> MkOut(userId, "deleted", 0)]

\* bot.on("text") for a text that is not a command; numeric tells whether
\* isNaN(text) is false
textMessage(d, ses, userId, numeric) ==
    LET s0 == getSession(ses, userId)
        session == s0[userId]
        step == session.step
        idle == [s0 EXCEPT ![userId].step = "none"]
    IN IF session.waitingForDeletionReason
       THEN IF userId \notin DOMAIN d
            THEN [db |-> d, ses |-> [s0 EXCEPT ![userId].waitingForDeletionReason = FALSE],
                  out |-> MkOut(userId, "createFirst", 0)]
            ELSE [db |-> purgeAndDelete(d, userId),
                  ses |-> [x \in DOMAIN s0 \ {userId} |-> s0[x]],
                  out |-> MkOut(userId, "deleted", 0),
                  reason |-> userId]
       ELSE IF step = "none" THEN [db |-> d, ses |-> s0, out |-> MkOut(userId, "none", 0)]
       ELSE IF step = "create_name_custom"
       THEN [db |-> d, ses |-> [s0 EXCEPT ![userId].step = "ask_age"],
             out |-> MkOut(userId, "prompt", 0)]
       ELSE IF step = "ask_age"
       THEN IF ~numeric THEN [db |-> d, ses |-> s0, out |-> MkOut(userId, "prompt", 0)]
            ELSE [db |-> d, ses |-> [s0 EXCEPT ![userId].step = "ask_gender"],
                  out |-> MkOut(userId, "prompt", 0)]
       ELSE IF step = "ask_bio"
       THEN [db |-> d, ses |-> [s0 EXCEPT ![userId].step = "ask_photo"],
             out |-> MkOut(userId, "prompt", 0)]
       ELSE IF step = "edit_name_custom" \/ step = "edit_bio"
       THEN IF userId \notin DOMAIN d
            THEN [db |-> d, ses |-> idle, out |-> MkOut(userId, "createFirst", 0)]
            ELSE autoStart(d, idle, userId)
       ELSE IF step = "edit_age"
       THEN IF ~numeric THEN [db |-> d, ses |-> s0, out |-> MkOut(userId, "prompt", 0)]
            ELSE IF userId \notin DOMAIN d
            THEN [db |-> d, ses |-> idle, out |-> MkOut(userId, "createFirst", 0)]
            ELSE autoStart(d, idle, userId)
       ELSE IF step = "waiting_message" THEN sendMessage(d, s0, userId)
       ELSE [db |-> d, ses |-> s0, out |-> MkOut(userId, "none", 0)]

\* Text messages, each as its first character and the rest.
Texts == { <<"/", "match">>, <<"/", "delete">>, <<"/", "create">>, <<"/", "stop">>,
           <<"2", "4">>, <<"h", "i">> }

\* text.startsWith("/")
startsWithSlash(text) == Len(text) > 0 /\ text[1] = "/"

\* isNaN(text) for the texts above: a text of digits is a number
isNaN(text) == ~(\A i \in 1..Len(text) : text[i] \in {"2", "4"})

\* Faulty variant of onText: the command marker is not looked at.
onTextNoMarker(d, ses, userId, text) == textMessage(d, ses, userId, ~isNaN(text))

\* bot.on("text") with the handlers next() leads to: a text starting with
\* "/" goes to the command registered for it, if any; any other text is
\* handled by the dialogue.
onText(d, ses, userId, text) ==
    IF startsWithSlash(text)
    THEN CASE text[2] = "match" -> matchCommand(d, getSession(ses, userId), userId)
           [] text[2] = "delete" -> deleteCommand(d, getSession(ses, userId), userId)
           [] text[2] = "create" -> createCommand(d, ses, userId)
           [] OTHER -> [db |-> d, ses |-> getSession(ses, userId),
                        out |-> MkOut(userId, "none", 0)]
    ELSE textMessage(d, ses, userId, ~isNaN(text))

\* parseInt on the payload's tier part
parseInt(str) ==
    CASE str = "40" -> 40
      [] str = "80" -> 80
      [] str = "20" -> 20
      [] OTHER -> -1

\* Faulty variant of successfulPayment: every package credits 40 swipes.
successfulPaymentFlat(d, ses, userId, parts) ==
    IF Len(parts) < 3 \/ parts[1] # "swipes"
    THEN [db |-> d, ses |-> ses, out |-> MkOut(userId, "none", 0)]
    ELSE
      LET swipesToAdd == parseInt(parts[2])
      IN IF swipesToAdd = -1 \/ (swipesToAdd # 40 /\ swipesToAdd # 80)
         THEN [db |-> d, ses |-> ses, out |-> MkOut(userId, "none", 0)]
         ELSE IF userId \notin DOMAIN d
         THEN [db |-> d, ses |-> ses, out |-> MkOut(userId, "createFirst", 0)]
         ELSE
           LET newPurchased == d[userId].purchasedSwipes + 40
               d1 == [d EXCEPT ![userId].purchasedSwipes = newPurchased]
           IN With(getAvailableSwipes(d1, userId), LAMBDA av :
              With(getSession(ses, userId), LAMBDA s1 :
                IF s1[userId].queue = <<>>
                THEN [db |-> av.db, ses |-> s1, out |-> MkOut(userId, "paid", 0)]
                ELSE catchThrow(showCandidate(av.db, s1, userId), "paid")))

\* bot.on('successful_payment'); the payload is the invoice payload split on "_"
successfulPayment(d, ses, userId, parts) ==
    IF Len(parts) < 3 \/ parts[1] # "swipes"
    THEN [db |-> d, ses |-> ses, out |-> MkOut(userId, "none", 0)]
    ELSE
      LET swipesToAdd == parseInt(parts[2])
      IN IF swipesToAdd = -1 \/ (swipesToAdd # 40 /\ swipesToAdd # 80)
         THEN [db |-> d, ses |-> ses, out |-> MkOut(userId, "none", 0)]
         ELSE IF userId \notin DOMAIN d
         THEN [db |-> d, ses |-> ses, out |-> MkOut(userId, "createFirst", 0)]
         ELSE
           LET newPurchased == d[userId].purchasedSwipes + swipesToAdd
               d1 == [d EXCEPT ![userId].purchasedSwipes = newPurchased]
           IN With(getAvailableSwipes(d1, userId), LAMBDA av :
              With(getSession(ses, userId), LAMBDA s1 :
                IF s1[userId].queue = <<>>
                THEN [db |-> av.db, ses |-> s1, out |-> MkOut(userId, "paid", 0)]
                ELSE catchThrow(showCandidate(av.db, s1, userId), "paid")))

\* Invoice payloads, each as payload.split("_")
PayloadList ==
    << <<"swipes", "40", "uid", "ts">>, <<"swipes", "80", "uid", "ts">>,
       <<"swipes", "20", "uid", "ts">>, <<"swipes", "40">>,
       <<"bonus", "40", "uid", "ts">> >>

Payloads == Range(PayloadList)

\* The place of a payload in PayloadList.
PayloadNo(parts) == CHOOSE i \in DOMAIN PayloadList : PayloadList[i] = parts

\* bot.on('pre_checkout_query'): answerPreCheckoutQuery(true) or (false).
\* payload.startsWith("swipes_") is: the first part is "swipes" and a
\* second part follows.
preCheckoutQuery(d, ses, userId, parts) ==
    IF ~(Len(parts) >= 2 /\ parts[1] = "swipes")
    THEN [db |-> d, ses |-> ses, out |-> MkOut(userId, "declined", 0)]
    ELSE IF Len(parts) < 3
    THEN [db |-> d, ses |-> ses, out |-> MkOut(userId, "declined", 0)]
    ELSE [db |-> d, ses |-> ses, out |-> MkOut(userId, "approved", 0)]

\* ---------------------------------------------------------------------
\* Actions: one per inbound event.  out records the event handled (op, the
\* acting user, arg) together with the handler's answer (kind, target).
\* ---------------------------------------------------------------------
\* r is the handler's result; swiped tells whether the handler got past its
\* profile checks and the swipe gate, i.e. completed a swipe consumption.
Apply(r, u, swiped, op, arg) ==
    /\ db' = r.db
    /\ sessions' = r.ses
    /\ out' = [user |-> u, kind |-> r.out.kind, target |-> r.out.target,
               op |-> op, arg |-> arg]
    /\ seen' = IF r.out.kind = "candidate"
               THEN [seen EXCEPT ![u] = @ \cup {r.out.target}]
               ELSE seen
    /\ consumed' = IF swiped THEN [consumed EXCEPT ![u] = @ + 1] ELSE consumed
    /\ deletionReasons' = IF "reason" \in DOMAIN r
                          THEN Append(deletionReasons, r.reason)
                          ELSE deletionReasons
    /\ reports' = IF "reports" \in DOMAIN r THEN r.reports ELSE reports
    /\ reporting' = IF "reporting" \in DOMAIN r THEN r.reporting ELSE reporting
    /\ calls' = IF "calls" \in DOMAIN r THEN r.calls ELSE calls
    /\ notify' = IF "notify" \in DOMAIN r THEN r.notify ELSE notify
    /\ loads' = IF "loads" \in DOMAIN r THEN r.loads ELSE loads
    /\ UNCHANGED now

NoEvent == [user |-> 0, kind |-> "none", target |-> 0, op |-> "none", arg |-> 0]

GatePassed(u) == u \in DOMAIN db /\ getAvailableSwipes(db, u).total > 0

Match(u) == Apply(matchCommand(db, sessions, u), u, FALSE, "match", 0)

Skip(u, t) == t # u /\ Apply(skipAction(db, sessions, u, t), u, GatePassed(u), "skip", t)

Like(u, t) ==
    /\ t # u
    /\ Apply(likeAction(db, sessions, u, t), u, GatePassed(u) /\ t \in DOMAIN db, "like", t)

Message(u, t) == t # u /\ Apply(messageAction(db, sessions, u, t), u, FALSE, "message", t)

Text(u, numeric) ==
    Apply(textMessage(db, sessions, u, numeric), u, FALSE, "text", IF numeric THEN 1 ELSE 0)

MatchesCommand(u) == Apply(matchesCommand(db, sessions, u), u, FALSE, "matches", 0)

DeleteCommand(u) == Apply(deleteCommand(db, sessions, u), u, FALSE, "delete", 0)

EditGender(u, g) == Apply(editGender(db, sessions, u, g), u, FALSE, "editGender", 0)

EditLook(u, l) == Apply(editLook(db, sessions, u, l), u, FALSE, "editLook", 0)

CreateCommand(u) == Apply(createCommand(db, sessions, u), u, FALSE, "create", 0)

EditAllStart(u) == Apply(editAllStart(db, sessions, u), u, FALSE, "editAll", 0)

CreateNameTelegram(u) == Apply(createNameTelegram(db, sessions, u), u, FALSE, "nameTelegram", 0)

CreateNameCustomStart(u) ==
    Apply(createNameCustomStart(db, sessions, u), u, FALSE, "nameCustom", 0)

Gender(u, g) == Apply(genderAction(db, sessions, u, g), u, FALSE, "gender", 0)

Look(u, l) == Apply(lookAction(db, sessions, u, l), u, FALSE, "look", 0)

Intention(u) == Apply(intentionAction(db, sessions, u), u, FALSE, "intention", 0)

SkipBio(u) == Apply(skipBio(db, sessions, u), u, FALSE, "skipBio", 0)

Photo(u) == Apply(photoMessage(db, sessions, u), u, FALSE, "photo", 0)

AddMorePhoto(u) == Apply(addMorePhoto(db, sessions, u), u, FALSE, "addMorePhoto", 0)

FinishPhotos(u) == Apply(finishPhotos(db, sessions, u), u, FALSE, "finishPhotos", 0)

\* The payment leaves the credit balance of u within cap.
WithinCredit(u, parts, cap) ==
    u \in DOMAIN db =>
        successfulPayment(db, sessions, u, parts).db[u].purchasedSwipes <= cap

\* A confirmed payment.  To keep the counters finite nobody pays after
\* more than DailyLimit consumptions on one day.
Payment(u, parts) ==
    /\ consumed[u] <= DailyLimit
    /\ Apply(successfulPayment(db, sessions, u, parts), u, FALSE, "payment", PayloadNo(parts))

\* A pre-checkout query for the invoice with the i-th payload.
PreCheckout(u, i) ==
    Apply(preCheckoutQuery(db, sessions, u, PayloadList[i]), u, FALSE, "preCheckout", i)

\* The last event was the approval of the i-th payload for u: the charge
\* is made and the successful_payment update follows.
Charged(u, i) ==
    /\ out.op = "preCheckout" /\ out.user = u /\ out.arg = i
    /\ out.kind = "approved"

\* Any text message of u, commands included.
TextUpdate(u, text) ==
    Apply(onText(db, sessions, u, text), u, FALSE,
          IF startsWithSlash(text) THEN "command" ELSE "plain", 0)

EditField(u, step) == Apply(editField(db, sessions, u, step), u, FALSE, "editField", 0)

\* A text of u that is no command arrives while its deletion reason is
\* awaited and its profile exists: the handler runs up to the stored reason.
TextReason(u) ==
    /\ u \in DOMAIN db /\ u \in DOMAIN sessions
    /\ sessions[u].waitingForDeletionReason
    /\ Apply(saveDeletionReason(db, sessions, u), u, FALSE, "reason", 0)

\* The handler that stored the reason of u goes on to its end.
DeleteAccount(u) ==
    /\ out.op = "reason" /\ out.user = u
    /\ Apply(deleteAccount(db, sessions, u), u, FALSE, "deleteAccount", 0)

\* A report update arrives and its handler runs up to the findOne answer.
Report(u, t) ==
    /\ t # u
    /\ reporting[<<u, t>>] < MaxInFlight
    /\ Apply(reportAction(db, sessions, reports, reporting, u, t), u, FALSE, "report", t)

\* A suspended report handler resumes and runs to its end.
ReportSave(u, t) ==
    /\ reporting[<<u, t>>] > 0
    /\ Apply(reportActionSave(db, sessions, reports, reporting, u, t), u, FALSE, "reportSave", t)

\* The queue of u is rebuilt, with or without the shown list excluded.
BuildQueue(u, excludeShown) ==
    /\ u \in DOMAIN db
    /\ Apply(rebuildQueue(db, sessions, u, excludeShown), u, FALSE, "build",
             IF excludeShown THEN 1 ELSE 0)

\* --- The Skip handler, one storage operation at a time -----------------
SkipFindOne(k, u) ==
    /\ calls[k].pc = "idle"
    /\ Apply(skipFindOne(db, sessions, calls, k, u), u, FALSE, "skipFindOne", k)

SkipGate(k) ==
    /\ calls[k].pc = "gate"
    /\ Apply(skipGate(db, sessions, calls, k), calls[k].user, FALSE, "skipGate", k)

SkipGateReset(k) ==
    /\ calls[k].pc = "gateReset"
    /\ Apply(skipGateReset(db, sessions, calls, k), calls[k].user, FALSE, "skipGateReset", k)

SkipConsume(k) ==
    /\ calls[k].pc = "consume"
    /\ Apply(skipConsumeStep(db, sessions, calls, k), calls[k].user, calls[k].cp > 0,
             "skipConsume", k)

SkipIncReset(k) ==
    /\ calls[k].pc = "incReset"
    /\ Apply(skipIncReset(db, sessions, calls, k), calls[k].user, FALSE, "skipIncReset", k)

SkipInc(k) ==
    /\ calls[k].pc = "inc"
    /\ Apply(skipInc(db, sessions, calls, k), calls[k].user, TRUE, "skipInc", k)

\* --- Like and message-send, suspended at their sends to the target ------
\* The sends a handler awaits, in order: raced tells whether the send is
\* inside Promise.race with the 10 s timeout, try which try block holds it.
\* Like sends one notification; message-send sends a notification, then the
\* sender's profile: one send for at most one photo, else the media group
\* followed by the buttons and the profile text.
sendPlan(d, op, userId) ==
    IF op = "like" THEN << [raced |-> TRUE, try |-> 1] >>
    ELSE << [raced |-> TRUE, try |-> 1] >> \o
         (IF d[userId].photos > 1
          THEN << [raced |-> TRUE, try |-> 2], [raced |-> FALSE, try |-> 2],
                  [raced |-> FALSE, try |-> 2] >>
          ELSE << [raced |-> TRUE, try |-> 2] >>)

\* await: the awaited promise settles when the send does, or when the timeout
\* it is raced with rejects.
settles(n) == n.outcome # "never" \/ Head(n.plan).raced

\* The sends still to make once the awaited one has settled: a rejection
\* leaves the try block.
afterSend(n) ==
    IF n.outcome = "delivered" THEN Tail(n.plan)
    ELSE SelectSeq(Tail(n.plan), LAMBDA s : s.try # Head(n.plan).try)

\* The handler after its sends: it stores the arrays and shows the next candidate.
finishSend(d, ses, n) ==
    With(IF n.op = "like" THEN likeAction(d, ses, n.user, n.target)
         ELSE sendMessage(d, ses, n.user), LAMBDA r :
      [db |-> r.db, ses |-> r.ses, out |-> r.out, notify |-> NoSend])

Sending(op, u, t, o) ==
    Apply([db |-> db, ses |-> sessions, out |-> MkOut(u, "pending", 0),
           notify |-> [pc |-> "sending", op |-> op, user |-> u, target |-> t,
                       plan |-> sendPlan(db, op, u), outcome |-> o]],
          u, FALSE, op \o "Notify", t)

LikeNotify(u, t, o) ==
    /\ notify.pc = "idle"
    /\ t # u /\ u \in DOMAIN db /\ t \in DOMAIN db
    /\ GatePassed(u)
    /\ Sending("like", u, t, o)

MessageNotify(u, o) ==
    /\ notify.pc = "idle"
    /\ u \in DOMAIN db /\ u \in DOMAIN sessions
    /\ sessions[u].step = "waiting_message"
    /\ sessions[u].messageTargetId \in DOMAIN db
    /\ Sending("message", u, sessions[u].messageTargetId, o)

NotifySettle(o) ==
    /\ notify.pc = "sending"
    /\ settles(notify)
    /\ afterSend(notify) # <<>>
    /\ Apply([db |-> db, ses |-> sessions, out |-> MkOut(notify.user, "pending", 0),
              notify |-> [notify EXCEPT !.plan = afterSend(notify), !.outcome = o]],
             notify.user, FALSE, "settle", notify.target)

NotifyFinish ==
    /\ notify.pc = "sending"
    /\ settles(notify)
    /\ afterSend(notify) = <<>>
    /\ Apply(finishSend(db, sessions, notify), notify.user,
             notify.op = "like" /\ GatePassed(notify.user), notify.op, notify.target)

\* --- The Like handler around its loadDB ---------------------------------
LikeLoad(u, t) ==
    /\ t # u
    /\ loads[u].pc # "loaded"
    /\ Apply(likeLoad(db, sessions, loads, u, t), u, FALSE, "likeLoad", t)

LikeStore(u) ==
    /\ loads[u].pc = "loaded"
    /\ Apply(likeStore(db, sessions, loads, u), u, GatePassed(u), "likeStore", loads[u].target)

\* The clock advances between events.
Tick ==
    /\ now < MaxNow
    /\ now' = now + 1
    /\ out' = [NoEvent EXCEPT !.op = "tick"]
    /\ consumed' = IF DayStart(now + 1) # DayStart(now)
                   THEN [u \in Users |-> 0] ELSE consumed
    /\ UNCHANGED <<db, sessions, seen, deletionReasons, reports, reporting, calls, notify,
                   loads>>

\* ---------------------------------------------------------------------
\* Initial states.  The users collection outlives the process and the
\* session map starts empty with it: the profiles are those a finished
\* creation dialogue stored (empty likes and matches), with the swipe
\* counters passed in.
\* ---------------------------------------------------------------------
StoredProfile(g, l, daily, purchased, t) ==
    [gender |-> g, looking |-> l, photos |-> 2,
     likes |-> <<>>, matches |-> <<>>, recentLikes |-> <<>>,
     dailySwipes |-> daily, lastSwipeReset |-> t, purchasedSwipes |-> purchased]

InitWith(present, genders, lookings, daily, purchased) ==
    /\ now = TicksPerDay + 1
    /\ db = [u \in present |-> StoredProfile(genders[u], lookings[u], daily[u], purchased[u], now)]
    /\ sessions = [u \in {} |-> NewSession]
    /\ out = NoEvent
    /\ seen = [u \in Users |-> {}]
    /\ consumed = [u \in Users |-> 0]
    /\ deletionReasons = <<>>
    /\ reports = <<>>
    /\ reporting = [p \in Users \X Users |-> 0]
    /\ calls = [k \in Slots |-> Idle]
    /\ notify = NoSend
    /\ loads = [u \in Users |-> NoLoad]

\* One man looking for women, the others women looking for men.
MixedGenders == [u \in Users |-> IF u = 1 THEN "male" ELSE "female"]

MixedLookings == [u \in Users |-> IF u = 1 THEN "women" ELSE "men"]

\* --- Rate limiter: user 1 swipes through a day and past midnight ------
InitRate ==
    InitWith(Users, MixedGenders, MixedLookings,
             [u \in Users |-> 0], [u \in Users |-> 0])

NextRate ==
    \/ \E t \in Users : Skip(1, t)
    \/ \E t \in Users : Like(1, t)
    \/ Match(1)
    \/ Tick

SpecRate == InitRate /\ [][NextRate]_vars

\* --- Purchased credits: user 1 buys a package and swipes --------------
InitCredits ==
    InitWith({1, 2}, MixedGenders, MixedLookings,
             [u \in Users |-> 0], [u \in Users |-> 0])

NextCredits ==
    \/ Skip(1, 2)
    \/ Like(1, 2)
    \/ Match(1)
    \/ \E parts \in Payloads : WithinCredit(1, parts, MaxPurchased) /\ Payment(1, parts)
    \/ Tick

SpecCredits == InitCredits /\ [][NextCredits]_vars

\* --- Likes only: everybody likes everybody, SwipesLeft swipes each -----
NearLimit == [u \in Users |-> DailyLimit - SwipesLeft]

InitLike ==
    InitWith(Users, MixedGenders, MixedLookings, NearLimit, [u \in Users |-> 0])

NextLike == \E u, t \in Users : Like(u, t)

SpecLike == InitLike /\ [][NextLike]_vars

\* --- Likes and messages: user 1 also writes to the others -------------
NextMessage ==
    \/ \E u, t \in Users : Like(u, t)
    \/ \E t \in Users : Message(1, t)
    \/ Text(1, FALSE)

SpecMessage == InitLike /\ [][NextMessage]_vars

\* --- Deletion: users 2 and 3 may delete their profile ------------------
Leavers == {2, 3}

NextDelete ==
    \/ \E u, t \in Users : Like(u, t)
    \/ \E u \in Leavers : DeleteCommand(u)
    \/ \E u \in Leavers : Text(u, FALSE)

SpecDelete == InitLike /\ [][NextDelete]_vars

\* --- Preference edits: user 1 browses and edits looking; the others ----
\* --- have any gender and preference ------------------------------------
InitPref ==
    \E g2, g3 \in Genders, l2, l3 \in Lookings :
        InitWith(Users,
                 [u \in Users |-> IF u = 1 THEN "male" ELSE IF u = 2 THEN g2 ELSE g3],
                 [u \in Users |-> IF u = 1 THEN "women" ELSE IF u = 2 THEN l2 ELSE l3],
                 NearLimit, [u \in Users |-> 0])

NextPref ==
    \/ Match(1)
    \/ \E t \in Users : Skip(1, t)
    \/ \E t \in Users : Like(1, t)
    \/ \E l \in Lookings : EditLook(1, l)

SpecPref == InitPref /\ [][NextPref]_vars

\* --- The creation dialogue: user 1 runs it, with or without a stored ---
\* --- profile, while users 1 and 2 like each other (at most SwipesLeft ---
\* --- times each) ---------------------------------------------------------
InitProfile ==
    \E present \in {{1, 2}, {2}} :
        InitWith(present, MixedGenders, MixedLookings, NearLimit, [u \in Users |-> 0])

NextProfile ==
    \/ CreateCommand(1)
    \/ EditAllStart(1)
    \/ CreateNameTelegram(1)
    \/ CreateNameCustomStart(1)
    \/ \E n \in BOOLEAN : Text(1, n)
    \/ Gender(1, "female")
    \/ Look(1, "men")
    \/ Intention(1)
    \/ SkipBio(1)
    \/ Photo(1)
    \/ AddMorePhoto(1)
    \/ FinishPhotos(1)
    \/ consumed[1] < SwipesLeft /\ Like(1, 2)
    \/ consumed[2] < SwipesLeft /\ Like(2, 1)
    \/ MatchesCommand(2)

SpecProfile == InitProfile /\ [][NextProfile]_vars

\* --- Reports: user 1 swipes and reports around midnight, with one credit
InitReport ==
    InitWith(Users, MixedGenders, MixedLookings, NearLimit,
             [u \in Users |-> IF u = 1 THEN 1 ELSE 0])

NextReport ==
    \/ \E t \in Users : Skip(1, t)
    \/ \E t \in Users : Like(1, t)
    \/ Report(1, 2)
    \/ ReportSave(1, 2)
    \/ Tick

SpecReport == InitReport /\ [][NextReport]_vars

\* --- Queue builder: user 1 browses any population of the others, user 3
\* --- may like user 1, and the queue of 1 is rebuilt at any moment -----
InitQueue ==
    \E present \in {{1}, {1, 2}, Users} :
    \E g2, g3 \in Genders, l2, l3 \in Lookings :
        InitWith(present,
                 [u \in Users |-> IF u = 1 THEN "male" ELSE IF u = 2 THEN g2 ELSE g3],
                 [u \in Users |-> IF u = 1 THEN "women" ELSE IF u = 2 THEN l2 ELSE l3],
                 NearLimit, [u \in Users |-> 0])

NextQueue ==
    \/ Match(1)
    \/ \E t \in Users : Skip(1, t)
    \/ \E t \in Users : Like(1, t)
    \/ Like(3, 1)
    \/ \E ex \in BOOLEAN : BuildQueue(1, ex)

SpecQueue == InitQueue /\ [][NextQueue]_vars

\* --- Payments: user 1 answers pre-checkout queries, is charged for the --
\* --- approved ones, and swipes --------------------------------------------
NextPay ==
    \/ \E i \in DOMAIN PayloadList : PreCheckout(1, i)
    \/ \E i \in DOMAIN PayloadList :
          Charged(1, i) /\ WithinCredit(1, PayloadList[i], MaxTier) /\ Payment(1, PayloadList[i])
    \/ Skip(1, 2)
    \/ Like(1, 2)
    \/ Match(1)

SpecPay == InitCredits /\ [][NextPay]_vars

\* --- Packages: user 1, SwipesLeft free swipes from the limit, buys -----
\* --- either package around midnight and skips at most SwipesLeft times --
\* --- a day ----------------------------------------------------------------
NextTier ==
    \/ \E parts \in Payloads : WithinCredit(1, parts, MaxTier) /\ Payment(1, parts)
    \/ Match(1)
    \/ consumed[1] < SwipesLeft /\ Skip(1, 2)
    \/ Tick

SpecTier == InitLike /\ [][NextTier]_vars

\* --- Two actors: users 1 and 2 browse, like, write to and report each ---
\* --- other, and user 2 may delete its profile ---------------------------
Actors == {1, 2}

InitFrame ==
    InitWith(Actors, MixedGenders, MixedLookings, NearLimit, [u \in Users |-> 0])

NextFrame ==
    \/ \E u \in Actors : Match(u)
    \/ \E u, t \in Actors : Like(u, t)
    \/ \E u, t \in Actors : Message(u, t)
    \/ \E u \in Actors : Text(u, FALSE)
    \/ Report(1, 2)
    \/ ReportSave(1, 2)
    \/ DeleteCommand(2)

SpecFrame == InitFrame /\ [][NextFrame]_vars

\* --- Text routing: user 1, with or without a profile, opens dialogue ---
\* --- steps by button and sends commands and plain texts -----------------
NextText ==
    \/ \E text \in Texts : TextUpdate(1, text)
    \/ CreateNameCustomStart(1)
    \/ CreateNameTelegram(1)
    \/ Gender(1, "female")
    \/ Intention(1)
    \/ \E step \in {"edit_age", "edit_bio"} : EditField(1, step)
    \/ Message(1, 2)

SpecText == InitProfile /\ [][NextText]_vars

\* --- Deletion step by step: as SpecDelete, with the reason stored and ---
\* --- the account removed in two steps of the one handler, which no -----
\* --- other event interrupts -------------------------------------------
NextLeave ==
    \/ out.op # "reason" /\ \E u, t \in Users : Like(u, t)
    \/ out.op # "reason" /\ \E u \in Leavers : DeleteCommand(u)
    \/ out.op # "reason" /\ \E u \in Leavers : TextReason(u)
    \/ \E u \in Leavers : DeleteAccount(u)

SpecLeave == InitLike /\ [][NextLeave]_vars

\* --- The swipe gate: user 1, alone or with others, swipes, writes and ----
\* --- asks for candidates until nothing is left ---------------------------
InitGate ==
    \E present \in {{1}, {1, 2}, Users} :
        InitWith(present, MixedGenders, MixedLookings, NearLimit, [u \in Users |-> 0])

NextGate ==
    \/ Match(1)
    \/ \E t \in Users : Skip(1, t)
    \/ \E t \in Users : Like(1, t)
    \/ \E t \in Users : Message(1, t)
    \/ Text(1, FALSE)

SpecGate == InitGate /\ [][NextGate]_vars

\* ---------------------------------------------------------------------
\* Properties of the rate limiter
\* ---------------------------------------------------------------------
Total(u) == getAvailableSwipes(db, u).total

\* The stored reset timestamp lies on another calendar day than now.
Stale(u) == DayStart(db[u].lastSwipeReset) # DayStart(now)

\* u completes a swipe consumption (Skip or Like) in this step.
Consumes(u) == consumed'[u] = consumed[u] + 1

\* C4: from dailySwipes = 0 and no purchased credits, after n <= 20 swipe
\* consumptions on one calendar day the available total is 20 - n, so it
\* is 0 after exactly 20.
C4_RateLimitBoundary ==
    \A u \in DOMAIN db :
        db[u].purchasedSwipes = 0 =>
            /\ consumed[u] <= DailyLimit
            /\ Total(u) = DailyLimit - consumed[u]

C4_Witness ==
    /\ consumed[1] = DailyLimit
    /\ db[1].purchasedSwipes = 0
    /\ Total(1) = 0

\* C5: when the stored reset day differs from the current day, the counter
\* is zeroed and the reset timestamp set to the start of the current day
\* before the counter is read or incremented: the first consumption after
\* midnight without purchased credits leaves dailySwipes = 1 and total = 19
\* whatever the previous day's count was.
C5_MidnightReset ==
    [][\A u \in DOMAIN db :
          /\ (Stale(u) /\ (Consumes(u) \/ db'[u].dailySwipes # db[u].dailySwipes
                                         \/ db'[u].lastSwipeReset # db[u].lastSwipeReset)) =>
                /\ db'[u].lastSwipeReset = DayStart(now)
                /\ db'[u].dailySwipes = IF Consumes(u) /\ db[u].purchasedSwipes = 0
                                        THEN 1 ELSE 0
          /\ (Stale(u) /\ Consumes(u) /\ db[u].purchasedSwipes = 0) =>
                Total(u)' = DailyLimit - 1]_vars

\* User 1 liked twice, once on an earlier day: the one consumption of today
\* is the only one counted.
C5_Witness ==
    /\ Len(db[1].likes) = 2
    /\ consumed[1] = 1
    /\ db[1].dailySwipes = 1
    /\ db[1].lastSwipeReset = DayStart(now)
    /\ db[1].lastSwipeReset # now
    /\ Total(1) = DailyLimit - 1

\* C6 as stated: a consumption with purchasedSwipes > 0 takes exactly one
\* credit and leaves dailySwipes unchanged; dailySwipes grows only when
\* purchasedSwipes = 0.
C6_CreditLeavesDailyUnchanged ==
    [][\A u \in DOMAIN db :
          /\ (Consumes(u) /\ db[u].purchasedSwipes > 0) =>
                /\ db'[u].purchasedSwipes = db[u].purchasedSwipes - 1
                /\ db'[u].dailySwipes = db[u].dailySwipes
          /\ (u \in DOMAIN db' /\ db'[u].dailySwipes > db[u].dailySwipes) =>
                db[u].purchasedSwipes = 0]_vars

\* The counter as the rate limiter sees it: 0 once the daily reset is due.
DailyToday(u) == IF Stale(u) THEN 0 ELSE db[u].dailySwipes

\* C6 amended: a consumption with purchasedSwipes > 0 takes exactly one
\* credit and does not increment dailySwipes, which keeps its value or is
\* zeroed by the daily reset when that is due; a consumption with
\* purchasedSwipes = 0 takes no credit and counts one on dailySwipes, and
\* dailySwipes grows in no other case.
C6_CreditPrecedence ==
    [][\A u \in DOMAIN db :
          /\ (Consumes(u) /\ db[u].purchasedSwipes > 0) =>
                /\ db'[u].purchasedSwipes = db[u].purchasedSwipes - 1
                /\ db'[u].dailySwipes = DailyToday(u)
          /\ (Consumes(u) /\ db[u].purchasedSwipes = 0) =>
                /\ db'[u].purchasedSwipes = 0
                /\ db'[u].dailySwipes = DailyToday(u) + 1
          /\ (u \in DOMAIN db' /\ db'[u].dailySwipes > db[u].dailySwipes) =>
                Consumes(u) /\ db[u].purchasedSwipes = 0]_vars

\* A credit was spent on a day on which free swipes had been used before.
C6_Witness ==
    /\ db[1].purchasedSwipes = MaxPurchased - 1
    /\ db[1].dailySwipes = 3
    /\ consumed[1] = 4
    /\ ~Stale(1)

\* ---------------------------------------------------------------------
\* Properties of likes, matches and recent likes
\* ---------------------------------------------------------------------
Last(s) == s[Len(s)]

\* u completes a Like on t in this step: both profiles exist and the swipe
\* gate let it through.
Likes(u, t) == out'.op = "like" /\ out'.user = u /\ out'.arg = t /\ Consumes(u)

\* u completes a message-send to t in this step: the text arrives while u's
\* session waits for the message to t, and both profiles exist.
Sends(u, t) ==
    /\ out'.op = "text" /\ out'.user = u
    /\ u \in DOMAIN sessions /\ u \in DOMAIN db /\ t \in DOMAIN db
    /\ ~sessions[u].waitingForDeletionReason
    /\ sessions[u].step = "waiting_message"
    /\ sessions[u].messageTargetId = t

\* C1: after any sequence of Like actions, each run to completion, A is in
\* B.matches if and only if B is in A.matches, for all existing profiles A, B.
C1_MatchSymmetryAfterLikes ==
    \A a, b \in DOMAIN db :
        a \in Range(db[b].matches) <=> b \in Range(db[a].matches)

\* Users 1 and 2 liked each other and are matched.
C1_Witness ==
    /\ out.op = "like"
    /\ 2 \in Range(db[1].matches)
    /\ 1 \in Range(db[2].matches)

\* C2: in every state reachable by completed operations (creation, re-running
\* the creation dialogue on a stored profile, Like, /matches), no profile
\* lists in its matches somebody whose profile does not list it back.
C2_MatchesSymmetric ==
    \A a \in DOMAIN db :
        \A i \in 1..Len(db[a].matches) :
            LET b == db[a].matches[i]
            IN b \in DOMAIN db => a \in Range(db[b].matches)

\* The candidates compatible with u in both directions.
Pool(u) == {c \in DOMAIN db \ {u} : isMatch(db[u], db[c])}

\* C3: with a fixed pool of more than one compatible candidate, no candidate
\* is presented to a user a second time before every candidate of the pool
\* has been presented to that user once.
C3_AllBeforeRepeat ==
    [][\A u \in DOMAIN db :
          (/\ out'.user = u
           /\ out'.kind = "candidate"
           /\ out'.target \in seen[u]
           /\ Cardinality(Pool(u)) > 1) => Pool(u) \subseteq seen[u]]_vars

\* C7: each completed Like or message-send of A on B leaves B exactly once in
\* A.likes, and no likes, matches or recentLikes list holds an id twice.
C7_IdempotentLike ==
    [][/\ \A a \in DOMAIN db' :
             NoDup(db'[a].likes) /\ NoDup(db'[a].matches) /\ NoDup(db'[a].recentLikes)
       /\ \A a, b \in DOMAIN db :
             (Likes(a, b) \/ Sends(a, b)) => Count(db'[a].likes, b) = 1]_vars

\* User 1 liked user 2 with the Like button and then sent user 2 a message:
\* 2 is once in the likes of 1.
C7_Witness ==
    /\ out.op = "text" /\ out.user = 1 /\ out.kind # "none"
    /\ consumed[1] = 1
    /\ db[1].likes = <<2>>

\* C8: once the deletion of X has completed, X is in no remaining profile's
\* likes, matches or recentLikes, and no buildCandidateQueue call for a
\* remaining user returns a list with X in it.
C8_DeletionPurge ==
    \A x \in Range(deletionReasons) :
        \A u \in DOMAIN db :
            /\ x \notin Range(db[u].likes)
            /\ x \notin Range(db[u].matches)
            /\ x \notin Range(db[u].recentLikes)
            /\ \A e \in BOOLEAN :
                   x \notin Range(buildCandidateQueue(db, sessions, u, e).queue)

\* User 2 has just deleted its profile after user 1 liked it and user 3 was
\* matched with it: the one like of user 1 and the match of user 3 are gone.
C8_Witness ==
    /\ out.kind = "deleted" /\ out.user = 2
    /\ deletionReasons = <<2>>
    /\ consumed[1] = 1 /\ db[1].likes = <<>>
    /\ consumed[3] = 1 /\ consumed[2] = 1 /\ db[3].matches = <<>>

\* The queue a user gets from buildCandidateQueue once the shown list and
\* the queue of its session are cleared.
FreshQueue(d, ses, u) ==
    buildCandidateQueue(d, [ses EXCEPT ![u].shown = <<>>, ![u].queue = <<>>], u, TRUE).queue

\* C9: when edit_look_* changes the looking value, the candidate presented
\* next is the head of a queue built with the new value from a cleared shown
\* list, the rest of that queue is what stays queued, and nothing queued
\* under the old value is served.
C9_PreferenceChangeClearsQueue ==
    [][\A u \in DOMAIN db :
          (/\ out'.op = "editLook" /\ out'.user = u
           /\ db'[u].looking # db[u].looking
           /\ out'.kind = "candidate") =>
              /\ FreshQueue(db', sessions', u) # <<>>
              /\ out'.target \in Range(FreshQueue(db', sessions', u))
              /\ out'.target = Head(FreshQueue(db', sessions', u))]_vars

\* C10: a completed Like of A on B while A is not in B.likes leaves B in
\* A.likes and A exactly once, as the last element, in B.recentLikes, and
\* changes the matches of neither.
C10_LikeWithoutMatch ==
    [][\A a, b \in DOMAIN db :
          (Likes(a, b) /\ a \notin Range(db[b].likes)) =>
              /\ b \in Range(db'[a].likes)
              /\ Count(db'[b].recentLikes, a) = 1
              /\ Last(db'[b].recentLikes) = a
              /\ db'[a].matches = db[a].matches
              /\ db'[b].matches = db[b].matches]_vars

\* User 1 liked user 2, then user 3 did, then user 1 again: 1 moved to the
\* end of the recent likes of 2, and nobody is matched.
C10_Witness ==
    /\ out.op = "like" /\ out.user = 1 /\ out.arg = 2
    /\ consumed[1] = 2 /\ db[1].likes = <<2>>
    /\ db[2].recentLikes = <<3, 1>>
    /\ db[2].likes = <<>>
    /\ db[1].matches = <<>> /\ db[2].matches = <<>>

\* C11: a completed Like of A on B while A is in B.likes leaves B in A.matches
\* and A in B.matches, each exactly once, and does not change A.recentLikes.
C11_LikeBackMatches ==
    [][\A a, b \in DOMAIN db :
          (Likes(a, b) /\ a \in Range(db[b].likes)) =>
              /\ Count(db'[a].matches, b) = 1
              /\ Count(db'[b].matches, a) = 1
              /\ db'[a].recentLikes = db[a].recentLikes]_vars

\* User 1 liked user 2, then user 2 liked user 1 back twice: they are matched
\* once each way and the recent like of 1 is still in the list of 2.
C11_Witness ==
    /\ out.op = "like" /\ out.user = 2 /\ out.arg = 1
    /\ consumed[2] = 2 /\ db[2].likes = <<1>>
    /\ db[2].matches = <<1>> /\ db[1].matches = <<2>>
    /\ db[2].recentLikes = <<1>>

\* ---------------------------------------------------------------------
\* Properties of the swipe gate and of swipe consumption
\* ---------------------------------------------------------------------
\* The shown list of u's session, empty while u has no session.
Shown(ses, u) == IF u \in DOMAIN ses THEN Range(ses[u].shown) ELSE {}

\* The step handles one of the gated events for u: /match, Skip, Like, the
\* Message button, or a text sent while u's session waits for a message.
Gated(u) ==
    /\ out'.user = u
    /\ \/ out'.op \in {"match", "skip", "like", "message"}
       \/ /\ out'.op = "text"
          /\ u \in DOMAIN sessions
          /\ ~sessions[u].waitingForDeletionReason
          /\ sessions[u].step = "waiting_message"

\* Nothing was presented to u, nothing added to its shown list, and no
\* profile's likes, matches, recentLikes or swipe counters changed.
NothingServed(u) ==
    /\ out'.kind # "candidate"
    /\ seen' = seen
    /\ Shown(sessions', u) \subseteq Shown(sessions, u)
    /\ DOMAIN db' = DOMAIN db
    /\ \A p \in DOMAIN db :
          /\ db'[p].likes = db[p].likes
          /\ db'[p].matches = db[p].matches
          /\ db'[p].recentLikes = db[p].recentLikes
          /\ db'[p].dailySwipes = db[p].dailySwipes
          /\ db'[p].purchasedSwipes = db[p].purchasedSwipes

CompletedSwipe(u) ==
    /\ out'.user = u /\ out'.op \in {"skip", "like"}
    /\ u \in DOMAIN db /\ Total(u) > 0 /\ out'.arg \in DOMAIN db

\* A step of the report handler of u.
Reports(u) == out'.user = u /\ out'.op \in {"report", "reportSave"}

\* C13 as stated: a completed Skip or Like lowers the total of available
\* swipes by exactly one, and a Report changes neither dailySwipes nor
\* purchasedSwipes.
C13_ReportLeavesCounters ==
    [][\A u \in DOMAIN db :
          /\ CompletedSwipe(u) => Total(u)' = Total(u) - 1
          /\ Reports(u) => /\ u \in DOMAIN db'
                           /\ db'[u].dailySwipes = db[u].dailySwipes
                           /\ db'[u].purchasedSwipes = db[u].purchasedSwipes]_vars

\* C13 amended: a completed Skip or Like lowers the total of available
\* swipes by exactly one, and a Report leaves the total and purchasedSwipes
\* unchanged; dailySwipes changes under a Report only by the reset to 0 of
\* a counter stored on an earlier day.
C13_ReportLeavesTotal ==
    [][\A u \in DOMAIN db :
          /\ CompletedSwipe(u) => Total(u)' = Total(u) - 1
          /\ Reports(u) => /\ u \in DOMAIN db'
                           /\ Total(u)' = Total(u)
                           /\ db'[u].purchasedSwipes = db[u].purchasedSwipes
                           /\ \/ db'[u].dailySwipes = db[u].dailySwipes
                              \/ Stale(u) /\ db'[u].dailySwipes = 0]_vars

\* User 1 has spent its credit and a free swipe and then stored a report
\* on user 2: the counters are those the two swipes left.
C13_Witness ==
    /\ out.op = "reportSave" /\ out.user = 1
    /\ Len(reports) = 1
    /\ consumed[1] = 2
    /\ db[1].purchasedSwipes = 0
    /\ db[1].dailySwipes = DailyLimit - SwipesLeft + 1

\* ---------------------------------------------------------------------
\* Messages
\* ---------------------------------------------------------------------
\* C14: the Message button changes no swipe counter of the sender, and
\* sending the text while waiting for the message to t consumes exactly one
\* swipe unit of the sender: a purchased credit if there is one, otherwise
\* one more on dailySwipes.
C14_SendConsumesSwipe ==
    [][\A u \in DOMAIN db :
          /\ (out'.op = "message" /\ out'.user = u) =>
                /\ db'[u].dailySwipes = db[u].dailySwipes
                /\ db'[u].purchasedSwipes = db[u].purchasedSwipes
          /\ \A t \in DOMAIN db :
                Sends(u, t) =>
                    IF db[u].purchasedSwipes > 0
                    THEN /\ db'[u].purchasedSwipes = db[u].purchasedSwipes - 1
                         /\ db'[u].dailySwipes = DailyToday(u)
                    ELSE /\ db'[u].purchasedSwipes = 0
                         /\ db'[u].dailySwipes = DailyToday(u) + 1]_vars

\* C15: a message sent by a to an existing profile b leaves b in a.likes;
\* if b.likes contained a, each is in the other's matches afterwards,
\* otherwise a is the last element of b.recentLikes; and a's dialogue step
\* is idle again with no message target.
C15_SendRecordsLike ==
    [][\A a, b \in DOMAIN db :
          Sends(a, b) =>
              /\ b \in Range(db'[a].likes)
              /\ IF a \in Range(db[b].likes)
                 THEN /\ b \in Range(db'[a].matches)
                      /\ a \in Range(db'[b].matches)
                 ELSE /\ db'[b].recentLikes # <<>>
                      /\ Last(db'[b].recentLikes) = a
              /\ sessions'[a].step = "none"
              /\ sessions'[a].messageTargetId = 0]_vars

\* User 1, who never tapped Like, has written to user 3 (no match, 1 is
\* the latest in 3's recentLikes) and then to user 2, who had liked 1: the
\* two are matched.
C15_Witness ==
    /\ out.op = "text" /\ out.user = 1
    /\ consumed[1] = 0
    /\ db[1].likes = <<3, 2>>
    /\ db[1].matches = <<2>> /\ db[2].matches = <<1>>
    /\ db[3].recentLikes # <<>> /\ Last(db[3].recentLikes) = 1
    /\ sessions[1].step = "none" /\ sessions[1].messageTargetId = 0

\* ---------------------------------------------------------------------
\* Reports
\* ---------------------------------------------------------------------
\* The number of stored reports of reporter u against t.
ReportCount(u, t) ==
    Cardinality({i \in 1..Len(reports) :
                    reports[i].reporterId = u /\ reports[i].reportedId = t})

\* C16: in every reachable state, report handlers of the same pair
\* interleaved between findOne and insertOne included, the reports
\* collection holds at most one record per (reporter, reported) pair.
C16_OneReportPerPair ==
    \A u, t \in Users : ReportCount(u, t) <= 1

\* ---------------------------------------------------------------------
\* Properties of the candidate queue builder
\* ---------------------------------------------------------------------
\* looking = "men" asks for gender "male", looking = "women" for "female".
Wants(looking, gender) ==
    \/ looking = "men" /\ gender = "male"
    \/ looking = "women" /\ gender = "female"

\* The other profiles that are compatible with u in both directions.
Compatible(u) ==
    {p \in DOMAIN db \ {u} :
        Wants(db[u].looking, db[p].gender) /\ Wants(db[p].looking, db[u].gender)}

\* This step is buildCandidateQueue(u, excludeShown); its result is the
\* queue of u afterwards.
Builds(u, excludeShown) ==
    /\ out'.op = "build" /\ out'.user = u
    /\ out'.arg = IF excludeShown THEN 1 ELSE 0

Ascending(q) == \A i, j \in 1..Len(q) : i < j => q[i] < q[j]

\* C17: buildCandidateQueue(u, TRUE), when some compatible profile is not
\* in u's shown list, returns exactly the compatible profiles outside the
\* shown list, in strictly ascending order of identifier (matches of u
\* among them included).
C17_StrictQueue ==
    [][\A u \in DOMAIN db :
          (Builds(u, TRUE) /\ Compatible(u) \ Shown(sessions, u) # {}) =>
              /\ Range(sessions'[u].queue) = Compatible(u) \ Shown(sessions, u)
              /\ Ascending(sessions'[u].queue)]_vars

\* User 1 is matched with user 3 and has been shown user 2 only: the queue
\* built is user 3 alone, its match.
C17_Witness ==
    /\ out.op = "build" /\ out.user = 1 /\ out.arg = 1
    /\ db[1].matches = <<3>>
    /\ sessions[1].shown = <<2>>
    /\ Compatible(1) = {2, 3}
    /\ sessions[1].queue = <<3>>

\* C18: buildCandidateQueue for a user with a profile returns the empty
\* list only if no other profile exists, whatever excludeShown and the
\* shown list are.
C18_EmptyOnlyWhenAlone ==
    [][\A u \in DOMAIN db : \A ex \in BOOLEAN :
          (Builds(u, ex) /\ sessions'[u].queue = <<>>) => DOMAIN db = {u}]_vars

\* Nobody is compatible with user 1, who has been shown both others: the
\* queue built with the shown list excluded is both of them again.
C18_Witness ==
    /\ out.op = "build" /\ out.user = 1 /\ out.arg = 1
    /\ Compatible(1) = {}
    /\ seen[1] = {2, 3}
    /\ sessions[1].shown = <<>>
    /\ sessions[1].queue = <<2, 3>>

\* C19: buildCandidateQueue returns a profile that is not compatible with
\* u only when no profile at all is compatible with u; when compatible
\* profiles exist and all are in the shown list, the shown list is cleared
\* and the compatible profiles are returned.
C19_RelaxationOrder ==
    [][\A u \in DOMAIN db : \A ex \in BOOLEAN :
          Builds(u, ex) =>
              /\ Compatible(u) # {} => Range(sessions'[u].queue) \subseteq Compatible(u)
              /\ (ex /\ Compatible(u) # {} /\ Compatible(u) \subseteq Shown(sessions, u)) =>
                    /\ sessions'[u].shown = <<>>
                    /\ Range(sessions'[u].queue) = Compatible(u)]_vars

\* Only user 2 is compatible with user 1 and it has been shown; user 3
\* has not been shown: the queue built is user 2 and the shown list is empty.
C19_Witness ==
    /\ out.op = "build" /\ out.user = 1 /\ out.arg = 1
    /\ Compatible(1) = {2} /\ 3 \in DOMAIN db
    /\ seen[1] = {2}
    /\ sessions[1].shown = <<>>
    /\ sessions[1].queue = <<2>>

\* ---------------------------------------------------------------------
\* Payments
\* ---------------------------------------------------------------------
\* The payload has the prefix swipes_ and names the tier 40 or 80.
Recognized(parts) ==
    /\ Len(parts) >= 3
    /\ parts[1] = "swipes"
    /\ parts[2] \in {"40", "80"}

\* C20: the pre-checkout step approves only payloads with the recognized
\* prefix and a recognized tier, so that no payment it approved is ignored
\* by the successful_payment step.
C20_ApprovedIsRecognized ==
    [][/\ (out'.op = "preCheckout" /\ out'.kind = "approved") =>
              Recognized(PayloadList[out'.arg])
       /\ (out'.op = "payment" /\ out.op = "preCheckout" /\ out.kind = "approved") =>
              out'.kind # "none"]_vars

\* This step is the successful_payment of u for the i-th payload.
Paid(u, i) == out'.op = "payment" /\ out'.user = u /\ out'.arg = i

\* The number of swipes of the package a recognized payload names.
Tier(parts) == IF parts[2] = "40" THEN 40 ELSE 80

\* C21 as stated: a confirmed payment for tier T by a user with a profile
\* adds exactly T to its purchasedSwipes and changes no other field of any
\* profile; one with a malformed payload or an unrecognized tier changes
\* no profile.
C21_PaymentChangesCreditOnly ==
    [][\A u \in DOMAIN db : \A i \in DOMAIN PayloadList :
          Paid(u, i) =>
              IF Recognized(PayloadList[i])
              THEN db' = [db EXCEPT ![u].purchasedSwipes = @ + Tier(PayloadList[i])]
              ELSE db' = db]_vars

\* C21 amended: a confirmed payment for tier T by a user with a profile
\* adds exactly T to its purchasedSwipes; of the other fields only the
\* payer's dailySwipes and lastSwipeReset may change, and only by the daily
\* reset when the stored counter is of an earlier day; one with a malformed
\* payload or an unrecognized tier changes no profile.
C21_PaymentCreditsTier ==
    [][\A u \in DOMAIN db : \A i \in DOMAIN PayloadList :
          Paid(u, i) =>
              IF Recognized(PayloadList[i])
              THEN /\ DOMAIN db' = DOMAIN db
                   /\ db' = [db EXCEPT ![u].purchasedSwipes = @ + Tier(PayloadList[i]),
                                       ![u].dailySwipes = DailyToday(u),
                                       ![u].lastSwipeReset = db'[u].lastSwipeReset]
                   /\ ~Stale(u) => db'[u].lastSwipeReset = db[u].lastSwipeReset
              ELSE db' = db]_vars

\* User 1 has paid the 80 package on the day after its counter was
\* stored: it holds 80 credits and its daily counter is back at 0.
C21_Witness ==
    /\ out.op = "payment" /\ out.user = 1 /\ out.arg = 2
    /\ PayloadList[2][2] = "80"
    /\ db[1].purchasedSwipes = 80
    /\ db[1].dailySwipes = 0
    /\ consumed[1] = 0

\* ---------------------------------------------------------------------
\* Sessions
\* ---------------------------------------------------------------------
\* C22: a handler touches the session of the acting user only: the session
\* of any other user B, existing or not, is the same before and after.
C22_OwnSessionOnly ==
    [][\A b \in Users :
          out'.user # b =>
              /\ (b \in DOMAIN sessions') = (b \in DOMAIN sessions)
              /\ b \in DOMAIN sessions => sessions'[b] = sessions[b]]_vars

\* User 2 has liked user 1 while user 1 was waiting to type its message to
\* user 2: the like is in 1's recentLikes and 1's session still waits.
C22_Witness ==
    /\ out.op = "like" /\ out.user = 2 /\ out.arg = 1
    /\ 1 \in DOMAIN db /\ 1 \in DOMAIN sessions
    /\ db[1].recentLikes = <<2>>
    /\ sessions[1].step = "waiting_message"
    /\ sessions[1].messageTargetId = 2

\* ---------------------------------------------------------------------
\* Text routing
\* ---------------------------------------------------------------------
\* The session of u as a handler gets it: a fresh one when none is stored.
SessionOf(ses, u) == getSession(ses, u)[u]

\* The steps in which the dialogue waits for a text.
TextSteps ==
    {"create_name_custom", "ask_age", "ask_bio",
     "edit_name_custom", "edit_age", "edit_bio", "waiting_message"}

\* The step a text advances each creation step to.
AfterText(step) ==
    CASE step = "create_name_custom" -> "ask_age"
      [] step = "ask_age" -> "ask_gender"
      [] step = "ask_bio" -> "ask_photo"
      [] OTHER -> "none"

\* C23: a text starting with "/" is never taken as dialogue input: no
\* deletion reason is stored and no profile removed, the pending deletion
\* stays pending, no like, match or recent like is recorded, and a step
\* waiting for a text is not advanced by it.  A text that is no command,
\* received while no deletion reason and no text step is pending, changes
\* no profile and no session (a session not stored yet counts as the fresh
\* one).
C23_TextRouting ==
    [][\A u \in Users :
          /\ (out'.user = u /\ out'.op = "command") =>
                /\ deletionReasons' = deletionReasons
                /\ DOMAIN db' = DOMAIN db
                /\ \A p \in DOMAIN db :
                      /\ db'[p].likes = db[p].likes
                      /\ db'[p].matches = db[p].matches
                      /\ db'[p].recentLikes = db[p].recentLikes
                /\ SessionOf(sessions, u).waitingForDeletionReason =>
                      SessionOf(sessions', u).waitingForDeletionReason
                /\ SessionOf(sessions, u).step \in TextSteps =>
                      SessionOf(sessions', u).step # AfterText(SessionOf(sessions, u).step)
          /\ (/\ out'.user = u /\ out'.op = "plain"
              /\ ~SessionOf(sessions, u).waitingForDeletionReason
              /\ SessionOf(sessions, u).step \notin TextSteps) =>
                /\ db' = db
                /\ \A x \in Users : SessionOf(sessions', x) = SessionOf(sessions, x)]_vars

\* User 1, asked for its age and then having typed /delete, typed /match:
\* a candidate was presented, the age is still asked for and the deletion
\* reason still awaited.
C23_Witness ==
    /\ out.op = "command" /\ out.user = 1 /\ out.kind = "candidate"
    /\ 1 \in DOMAIN db /\ 1 \in DOMAIN sessions
    /\ sessions[1].step = "ask_age"
    /\ sessions[1].waitingForDeletionReason
    /\ deletionReasons = <<>>

\* ---------------------------------------------------------------------
\* The creation dialogue
\* ---------------------------------------------------------------------
\* The step in which the dialogue offers each creation button.
ExpectedStep(op) ==
    CASE op \in {"nameTelegram", "nameCustom"} -> "create_name_choice"
      [] op = "gender" -> "ask_gender"
      [] op = "look" -> "ask_looking"
      [] op = "intention" -> "ask_intention"
      [] op = "skipBio" -> "ask_bio"
      [] op \in {"addMorePhoto", "finishPhotos"} -> "ask_photo"

CreationButtons ==
    {"nameTelegram", "nameCustom", "gender", "look", "intention", "skipBio",
     "addMorePhoto", "finishPhotos"}

\* C24: a creation button pressed while the session is in another step
\* than the one that offers it leaves the step and the profile fields
\* collected so far as they were.
C24_ButtonsNeedTheirStep ==
    [][\A u \in Users :
          (/\ out'.user = u /\ out'.op \in CreationButtons
           /\ SessionOf(sessions, u).step # ExpectedStep(out'.op)) =>
              /\ SessionOf(sessions', u).step = SessionOf(sessions, u).step
              /\ SessionOf(sessions', u).gender = SessionOf(sessions, u).gender
              /\ SessionOf(sessions', u).looking = SessionOf(sessions, u).looking
              /\ SessionOf(sessions', u).photos = SessionOf(sessions, u).photos]_vars

\* C25: every stored profile has a gender and a looking value and two or
\* three photos: the creation dialogue stores a profile only once it has
\* collected them all.
C25_StoredProfilesComplete ==
    \A p \in DOMAIN db :
        /\ db[p].gender \in Genders
        /\ db[p].looking \in Lookings
        /\ db[p].photos \in {2, 3}

\* ---------------------------------------------------------------------
\* Deletion in two phases
\* ---------------------------------------------------------------------
\* C26: /delete changes no profile and stores no reason, and sets the
\* waiting flag of a user with a profile; the text that follows stores the
\* reason while the profile is still there; a profile is removed only in a
\* step that starts with its reason stored last, and that step leaves the
\* user in no other profile's likes, matches or recentLikes and without a
\* session entry, so that the next access gets a fresh session.
C26_TwoPhaseDeletion ==
    [][\A u \in Users :
          /\ (out'.user = u /\ out'.op = "delete") =>
                /\ db' = db
                /\ deletionReasons' = deletionReasons
                /\ u \in DOMAIN db => SessionOf(sessions', u).waitingForDeletionReason
          /\ (out'.user = u /\ out'.op = "reason") =>
                /\ db' = db
                /\ deletionReasons' = Append(deletionReasons, u)
          /\ (u \in DOMAIN db /\ u \notin DOMAIN db') =>
                /\ deletionReasons # <<>> /\ Last(deletionReasons) = u
                /\ deletionReasons' = deletionReasons
                /\ DOMAIN db' = DOMAIN db \ {u}
                /\ \A p \in DOMAIN db' :
                      /\ u \notin Range(db'[p].likes)
                      /\ u \notin Range(db'[p].matches)
                      /\ u \notin Range(db'[p].recentLikes)
                /\ u \notin DOMAIN sessions'
                /\ SessionOf(sessions', u) = NewSession]_vars

\* User 2, matched with user 1, has given its reason and its account is
\* gone: no profile, no session, and user 1 has no match left.
C26_Witness ==
    /\ out.op = "deleteAccount" /\ out.user = 2
    /\ deletionReasons = <<2>>
    /\ 2 \notin DOMAIN db /\ 2 \notin DOMAIN sessions
    /\ consumed[1] > 0 /\ consumed[2] > 0
    /\ 1 \in DOMAIN db /\ db[1].matches = <<>> /\ db[1].likes = <<>>

\* --- Two Skip handlers of user 1 in flight ------------------------------
\* The day changes at any point except between the findOne and the $inc of
\* incrementDailySwipes, so that every counted consumption is stored on the
\* day it is counted on.
Quiet == \A k \in Slots : calls[k].pc = "idle"

NextRace ==
    \/ \E k \in Slots : consumed[1] < SwipesLeft /\ SkipFindOne(k, 1)
    \/ \E k \in Slots : SkipGate(k)
    \/ \E k \in Slots : SkipGateReset(k)
    \/ \E k \in Slots : SkipConsume(k)
    \/ \E k \in Slots : SkipIncReset(k)
    \/ \E k \in Slots : SkipInc(k)
    \/ (\A k \in Slots : calls[k].pc # "inc") /\ Tick

\* User 1 holds one purchased credit.
SpecRace == InitReport /\ [][NextRace]_vars

\* C27: purchasedSwipes is a non-negative integer in every reachable state,
\* also when two Skip handlers of one user are interleaved at their awaits.
C27_CreditsNonNegative ==
    \A u \in DOMAIN db : db[u].purchasedSwipes \in Nat

\* --- Sends to the target that fail or never complete --------------------
NextNotify ==
    \/ \E t \in Users : Message(1, t)
    \/ \E u \in Actors, t \in Users, o \in Outcomes : LikeNotify(u, t, o)
    \/ \E o \in Outcomes : MessageNotify(1, o)
    \/ \E o \in Outcomes : NotifySettle(o)
    \/ NotifyFinish

\* The event loop runs a continuation whose promise has settled: weak
\* fairness of NotifySettle and of NotifyFinish, the latter with its
\* enabling condition written out.
SpecNotify ==
    /\ InitLike
    /\ [][NextNotify]_vars
    /\ WF_vars(\E o \in Outcomes : NotifySettle(o))
    /\ (<>[](notify.pc = "sending" /\ settles(notify) /\ afterSend(notify) = <<>>)
          => []<><<notify.pc = "sending" /\ notify'.pc = "idle">>_vars)

\* C28: a Like or message-send whose notification to the target fails or
\* never completes is not stalled by it: the handler goes on to store the
\* arrays and to its resume-presentation step.
C28_NotificationNeverStalls ==
    (notify.pc = "sending") ~> (notify.pc = "idle")

\* --- Two Skip handlers of user 1 in flight, no purchased credits --------
SpecIncrement == InitLike /\ [][NextRace]_vars

\* dailySwipes of every user at the start of the current day: the initial
\* count on the first day, 0 after the daily reset.
DailyBase == IF DayStart(now) = DayStart(TicksPerDay + 1) THEN DailyLimit - SwipesLeft ELSE 0

\* C29: the swipe-counter increments of one user are atomic relative to each
\* other: with no purchased credits, once the counter is reset for the day
\* it has grown by one for every consumption of the day, also when the
\* consumptions are concurrent and the daily reset is due.
C29_IncrementsNotLost ==
    \A u \in DOMAIN db :
        (db[u].purchasedSwipes = 0 /\ ~Stale(u)) =>
            db[u].dailySwipes = DailyBase + consumed[u]

\* The step ends a creation dialogue of u: a photo or the finish button.
EndsCreation(u) == out'.user = u /\ out'.op \in {"photo", "finishPhotos"}

\* C30: finishing the creation dialogue on a profile that exists replaces
\* only the fields the dialogue collects: matches, likes, recentLikes,
\* dailySwipes (but for the daily reset) and purchasedSwipes stay as they were.
C30_RecreationKeepsRelations ==
    [][\A u \in DOMAIN db :
          (EndsCreation(u) /\ u \in DOMAIN db') =>
              /\ db'[u].matches = db[u].matches
              /\ db'[u].likes = db[u].likes
              /\ db'[u].recentLikes = db[u].recentLikes
              /\ db'[u].dailySwipes = DailyToday(u)
              /\ db'[u].purchasedSwipes = db[u].purchasedSwipes]_vars

\* --- Swipes and the creation dialogue of user 1 on one day ---------------
\* The swipe gate alone limits the consumptions; one consumption beyond the
\* daily allowance is let through to keep the counters finite.
NextAllowance ==
    \/ EditAllStart(1)
    \/ CreateCommand(1)
    \/ CreateNameTelegram(1)
    \/ Text(1, TRUE)
    \/ Gender(1, "male")
    \/ Look(1, "women")
    \/ Intention(1)
    \/ SkipBio(1)
    \/ Photo(1)
    \/ FinishPhotos(1)
    \/ consumed[1] <= SwipesLeft /\ Skip(1, 2)
    \/ consumed[1] <= SwipesLeft /\ Like(1, 2)

SpecAllowance == InitFrame /\ [][NextAllowance]_vars

\* C31: with no purchased credits a user completes at most 20 consumptions
\* on one calendar day, the DailyLimit - SwipesLeft of before the first
\* state included, whatever the user does in between.
C31_DailyAllowance ==
    \A u \in DOMAIN db :
        db[u].purchasedSwipes = 0 => (DailyLimit - SwipesLeft) + consumed[u] <= DailyLimit

\* --- Deletions while user 1 browses a queue built earlier ----------------
NextGone ==
    \/ Match(1)
    \/ \E t \in Users : Skip(1, t)
    \/ \E t \in Users : Like(1, t)
    \/ \E u \in Leavers : DeleteCommand(u)
    \/ \E u \in Leavers : Text(u, FALSE)

SpecGone == InitLike /\ [][NextGone]_vars

\* C32: a profile that was deleted is not presented to anybody afterwards:
\* every candidate presented has a stored profile.
C32_DeletedNeverPresented ==
    [][out'.kind = "candidate" => out'.target \in DOMAIN db']_vars

\* --- Like handlers of different users in flight together -----------------
NextMutual ==
    \/ \E u \in Actors, t \in Users : LikeLoad(u, t)
    \/ \E u \in Actors : LikeStore(u)

SpecMutual == InitLike /\ [][NextMutual]_vars

\* The last Like of a that completed was on b.
LikedLast(a, b) == loads[a].pc = "done" /\ loads[a].target = b

\* C33: once A's Like on B and B's Like on A have both completed, however
\* they were interleaved, A and B are in each other's likes and matches.
C33_MutualLikeMatches ==
    \A a, b \in DOMAIN db :
        (LikedLast(a, b) /\ LikedLast(b, a)) =>
            /\ b \in Range(db[a].likes) /\ a \in Range(db[b].likes)
            /\ b \in Range(db[a].matches) /\ a \in Range(db[b].matches)

\* C34: the Like of A on B removes nothing from B.likes and B.matches,
\* whatever B did while it was in flight.
C34_TargetArraysOnlyGrow ==
    [][\A a \in DOMAIN db :
          (out'.op = "likeStore" /\ out'.user = a /\ loads[a].target \in DOMAIN db) =>
              /\ Range(db[loads[a].target].likes) \subseteq Range(db'[loads[a].target].likes)
              /\ Range(db[loads[a].target].matches) \subseteq Range(db'[loads[a].target].matches)]_vars

\* --- A payment of user 1 while its Like is in flight ---------------------
NextCreditRace ==
    \/ \E t \in Users : consumed[1] < SwipesLeft /\ LikeLoad(1, t)
    \/ LikeStore(1)
    \/ \E parts \in Payloads : WithinCredit(1, parts, MaxTier) /\ Payment(1, parts)

\* User 1 holds one purchased credit.
SpecCreditRace == InitReport /\ [][NextCreditRace]_vars

\* C39: the credit of a confirmed payment is never lost: a step that is not
\* a payment leaves purchasedSwipes as it is, or takes one credit for the
\* consumption it completes, also when the payment arrived while a Like of
\* the same user was in flight.
C39_CreditNeverLost ==
    [][\A u \in DOMAIN db :
          (u \in DOMAIN db' /\ out'.op # "payment") =>
              \/ db'[u].purchasedSwipes = db[u].purchasedSwipes
              \/ Consumes(u) /\ db'[u].purchasedSwipes = db[u].purchasedSwipes - 1]_vars

\* The number of times buildCandidateQueue calls itself before it returns.
RECURSIVE reentries(_, _, _, _)
reentries(d, ses, userId, excludeShown) ==
    IF userId \notin DOMAIN d THEN 0
    ELSE
      LET me == d[userId]
          s0 == getSession(ses, userId)
          shownIds == IF excludeShown THEN Range(s0[userId].shown) ELSE {}
          unfiltered == {u \in DOMAIN d : u # userId /\ ~(excludeShown /\ u \in shownIds)}
          candidates == {u \in unfiltered : isMatch(me, d[u])}
          reset == [s0 EXCEPT ![userId].shown = <<>>]
      IN IF candidates = {} /\ excludeShown /\ shownIds # {}
         THEN 1 + reentries(d, reset, userId, FALSE)
         ELSE IF candidates = {} /\ unfiltered = {} /\ excludeShown /\ shownIds # {}
              THEN 1 + reentries(d, reset, userId, TRUE)
              ELSE 0

\* What a call of showCandidate ends in.
Ends == {"candidate", "offer", "noOthers", "noNew"}

\* C35: buildCandidateQueue calls itself at most once per call, and
\* showCandidate, called for a user with a profile, ends with a candidate,
\* the purchase offer, or one of its two 'nobody' messages.
C35_QueueCallsTerminate ==
    \A u \in DOMAIN db :
        /\ \A ex \in BOOLEAN : reentries(db, sessions, u, ex) <= 1
        /\ showCandidate(db, sessions, u).out.kind \in Ends

\* User 1 has been shown every compatible profile: the next build calls
\* itself once, and showCandidate presents a candidate again.
C35_Witness ==
    /\ 1 \in DOMAIN db
    /\ reentries(db, sessions, 1, TRUE) = 1
    /\ showCandidate(db, sessions, 1).out.kind = "candidate"

\* C36: a text typed right after the Message prompt is handled as a message
\* to the target and is never taken as a deletion reason.
C36_MessageTextIsNoReason ==
    [][\A u \in DOMAIN sessions :
          (/\ out.op = "message" /\ out.user = u /\ out.kind = "prompt"
           /\ out'.op = "text" /\ out'.user = u) =>
              /\ out'.kind # "deleted"
              /\ deletionReasons' = deletionReasons]_vars

\* --- User 1 only browses: /match, Skip and Like on one day ---------------
NextBrowse ==
    \/ Match(1)
    \/ \E t \in Users : Skip(1, t)
    \/ \E t \in Users : Like(1, t)

SpecBrowse == InitLike /\ [][NextBrowse]_vars

\* C37: with no purchased credits, of the candidates presented to a user on
\* one day every one after the first comes with a consumed swipe, which
\* makes at most 21 of them.
C37_PresentationsCostSwipes ==
    [][\A u \in DOMAIN db :
          (/\ out'.kind = "candidate" /\ out'.user = u
           /\ db[u].purchasedSwipes = 0
           /\ seen[u] # {}) => Consumes(u)]_vars

\* --- User 1 browses and edits its gender ----------------------------------
NextGender ==
    \/ Match(1)
    \/ \E t \in Users : Skip(1, t)
    \/ \E g \in Genders : EditGender(1, g)

SpecGender == InitPref /\ [][NextGender]_vars

\* C38: whenever some stored profile is compatible with u in both
\* directions, the candidate presented to u is compatible with the gender
\* and looking values u has stored at that moment.
C38_PresentedIsCompatible ==
    [][\A u \in DOMAIN db' :
          (/\ out'.kind = "candidate" /\ out'.user = u
           /\ out'.target \in DOMAIN db'
           /\ \E c \in DOMAIN db' \ {u} : isMatch(db'[u], db'[c])) =>
              isMatch(db'[u], db'[out'.target])]_vars

\* --- Storage failures while the available swipes are computed -------------
\* The storage call that rejects: none, the findOne of getAvailableSwipes,
\* the findOne of checkAndResetDailySwipes, or its updateOne.
Faults == {"none", "findUser", "findCounters", "reset"}

SafeDefault == [free |-> 0, purchased |-> 0, total |-> 0]

\* checkAndResetDailySwipes with one storage call rejecting: its catch
\* block returns 0 and nothing is written.
checkAndResetDailySwipesFailing(d, userId, fault) ==
    IF fault = "findCounters" THEN [db |-> d, val |-> 0]
    ELSE IF userId \notin DOMAIN d THEN [db |-> d, val |-> 0]
    ELSE IF isResetDue(d, userId)
         THEN IF fault = "reset"
              THEN [db |-> d, val |-> 0]
              ELSE [db |-> resetDailySwipes(d, userId), val |-> 0]
         ELSE [db |-> d, val |-> d[userId].dailySwipes]

\* getAvailableSwipes with one storage call rejecting: only a rejection
\* of its own findOne reaches its catch block.
getAvailableSwipesFailing(d, userId, fault) ==
    IF fault = "findUser" THEN [db |-> d] @@ SafeDefault
    ELSE IF userId \notin DOMAIN d THEN [db |-> d] @@ SafeDefault
    ELSE With(checkAndResetDailySwipesFailing(d, userId, fault), LAMBDA r :
           [db |-> r.db,
            free |-> Max0(DailyLimit - r.val),
            purchased |-> d[userId].purchasedSwipes,
            total |-> Max0(DailyLimit - r.val) + d[userId].purchasedSwipes])

\* One call of getAvailableSwipes(u) during which storage call f rejects;
\* the updateOne is only issued when a reset is due.
AvailableSwipes(u, f) ==
    /\ u \in DOMAIN db
    /\ f = "reset" => isResetDue(db, u)
    /\ With(getAvailableSwipesFailing(db, u, f), LAMBDA av :
         /\ db' = av.db
         /\ out' = [user |-> u, kind |-> f, target |-> 0, op |-> "available",
                    arg |-> av.total])
    /\ UNCHANGED <<sessions, now, seen, consumed, deletionReasons, reports, reporting,
                   calls, notify, loads>>

NextFailing ==
    \/ \E t \in Users : Skip(1, t)
    \/ \E t \in Users : Like(1, t)
    \/ \E f \in Faults : AvailableSwipes(1, f)
    \/ Tick

SpecFailing == InitReport /\ [][NextFailing]_vars

\* C40: a computation of the available swipes during which a storage
\* call rejects yields a total of 0.
C40_FailureYieldsSafeDefault ==
    [][(out'.op = "available" /\ out'.kind # "none") => out'.arg = 0]_vars

====
